---- MODULE Spec2Model ----
(***************************************************************************)
(* A model of the function-to-node adaptation engine of                    *)
(* src/easy_nodes/easy_nodes.py: the type registry, the registration of    *)
(* nodes by the ComfyNode decorator, the per-function registration records, *)
(* the live-update tracker with its "closed for registration" latch, and   *)
(* the call wrapper with the verification of its arguments and results.    *)
(*                                                                         *)
(* The module-level dictionaries of the source are the variables.  Every   *)
(* function of the source is an operator that maps a snapshot of these     *)
(* variables (a record s, with the extra field exc naming the exception    *)
(* the call raised, "" for none) to the snapshot after the call, so that   *)
(* one action is one whole call, the calls it makes included.              *)
(***************************************************************************)
EXTENDS Integers, Sequences, FiniteSets, TLC

VARIABLES
    ANNOTATION_TO_COMFYUI_TYPE,     \* native type key -> port-type name
    SHOULD_AUTOCONVERT,             \* native type key -> flag
    DEFAULT_FORCE_INPUT,            \* native type key -> flag
    COMFYUI_TYPE_TO_ANNOTATION_CLS, \* port-type name -> canonical native type
    custom_verifiers,               \* port-type name -> validator
    after_first_prompt,             \* the "closed for registration" latch
    module_reload_times,            \* module name -> time of the last (re)load
    function_dict,                  \* __qualname__ -> implementation reference
    function_checksums,             \* __qualname__ -> fingerprint
    function_update_times,          \* __qualname__ -> timestamp
    current_config,                 \* index into configs, 0 for None
    configs,                        \* the EasyNodesConfig objects ever created
    host_class,                     \* comfyui_nodes.NODE_CLASS_MAPPINGS
    host_display,                   \* comfyui_nodes.NODE_DISPLAY_NAME_MAPPINGS
    module_attrs,                   \* the module objects (which _module_dict memoizes by
                                    \* name): module name -> (attribute -> function object)
    disk_mtime,                     \* module name -> modification time of its file
    disk_src,                       \* function -> version of its source text on disk
    ReloadOnEdit,                   \* config_service value "easy_nodes.ReloadOnEdit"
    imported,                       \* sys.modules: the client modules imported so far
    pc,                             \* what the interpreter is in the middle of
    prompted,                       \* the host has invoked a node wrapper at least once
    last,                           \* the registration call just made, if any, and the
                                    \* exception the last step of the interpreter raised
    sig,                            \* the last change signal computed, and for what
    curr_preview,                   \* _curr_preview: the preview entries, in order
    curr_unique_id,                 \* _curr_unique_id: the node id of the call made last
    call,                           \* the wrapper call made last, and its outcome
    probe                           \* the call of a widget constructor or of an
                                    \* inference function made last, and its result

vars == <<ANNOTATION_TO_COMFYUI_TYPE, SHOULD_AUTOCONVERT, DEFAULT_FORCE_INPUT,
          COMFYUI_TYPE_TO_ANNOTATION_CLS, custom_verifiers, after_first_prompt,
          module_reload_times, function_dict, function_checksums,
          function_update_times, current_config, configs, host_class, host_display,
          module_attrs, disk_mtime, disk_src, ReloadOnEdit, imported, pc, prompted,
          last, sig, curr_preview, curr_unique_id, call, probe>>

-----------------------------------------------------------------------------
(* Bounds of the model. *)

\* File modification times range over 0..MaxTime.
MaxTime == 2
\* At most MaxConfigs configurations are created by direct calls.
MaxConfigs == 2
\* A function calls show_text at most MaxTexts times in one call.
MaxTexts == 1
\* The setting "easy_nodes.max_tries" ranges over 1..MaxTries.
MaxTries == 2

\* The numbers given to a widget range over 0..MaxNum.
MaxNum == 3

\* The numbers the host gives to a node range over 0..MaxArg.
MaxArg == 10

Time == 0..MaxTime

-----------------------------------------------------------------------------
(* Python dictionaries: functions with a finite, growing domain. *)

EmptyDict == [k \in {} |-> 0]

Put(d, k, v) == [x \in (DOMAIN d) \cup {k} |-> IF x = k THEN v ELSE d[x]]

Get(d, k, default) == IF k \in DOMAIN d THEN d[k] ELSE default

Values(d) == {d[k] : k \in DOMAIN d}

\* F(x), with x computed once: a local variable of the source.
Apply(x, F(_)) == CHOOSE r \in {F(v) : v \in {x}} : TRUE

-----------------------------------------------------------------------------
(* The client program: the native types, modules and functions it defines. *)

\* Native types, named by their fully qualified name (module.qualname).
NativeTypes == {"a.Img", "b.Img", "c.Txt"}

\* cls.__name__
ShortName(cls) ==
    CASE cls = "c.Txt" -> "Txt"
      [] cls = "builtins.int" -> "int"
      [] cls = "builtins.list" -> "list"
      [] OTHER -> "Img"

\* Validators a caller can pass to register_type ("" stands for None).
Verifiers == {"", "V1", "V2"}

Modules == {"A", "B", "C", "D", "E"}

\* The decorated functions of the client program.
Funcs == {"f1", "f2", "f3", "f4", "f5", "f6", "f7", "f8", "f9", "f10", "f11", "f12",
          "f13", "f14"}

\* func.__module__
ModuleOf(f) ==
    CASE f \in {"f1", "f2", "f4", "f6"} -> "A"
      [] f = "f5" -> "B"
      [] f \in {"f3", "f7", "f8"} -> "C"
      [] f \in {"f9", "f10", "f11", "f12"} -> "D"
      [] f \in {"f13", "f14"} -> "E"

\* func.__name__
NameOf(f) ==
    CASE f = "f1" -> "foo"
      [] f = "f2" -> "bar"
      [] f = "f3" -> "foo"
      [] f = "f4" -> "run"
      [] f = "f5" -> "stop"
      [] f = "f6" -> "halt"
      [] f = "f7" -> "baz"
      [] f = "f8" -> "qux"
      [] f = "f9" -> "add"
      [] f = "f10" -> "tag"
      [] f = "f11" -> "clamp"
      [] f = "f12" -> "scale"
      [] f = "f13" -> "go"
      [] f = "f14" -> "go"

\* _get_node_class: the class of the module that a method belongs to, found by
\* its name in the function's globals ("" stands for None, the result for a
\* module-level function).  K.run and K.halt are methods of one class K of A,
\* M.go is a method of the class M of E, which also has a function go.
ClassOf(f) == CASE f \in {"f4", "f6"} -> "K" [] f = "f13" -> "M" [] OTHER -> ""

\* func.__qualname__: the class path and the name, without the module.
QualName(f) == IF ClassOf(f) = "" THEN NameOf(f) ELSE ClassOf(f) \o "." \o NameOf(f)

\* The fully qualified function path: module and qualname.
FullPath(f) == ModuleOf(f) \o "." \o QualName(f)

\* A default value of a parameter: inspect.Parameter.empty ("empty") for
\* none, None, a plain int or str ("int", "str", with val the number or a
\* number standing for the text), an object of another kind ("obj"), or one of
\* the widgets NumberInput, StringInput and Choice with its attributes; <<>>
\* stands for a bound that is None.
Default(kind, val) ==
    [kind |-> kind, val |-> val, min |-> <<>>, max |-> <<>>, optional |-> FALSE,
     hidden |-> FALSE, force_input |-> FALSE]

NoDefault == Default("empty", 0)

\* Mutant of OutOfRange: a default equal to a bound is refused as well.
OutOfRangeOrEqual(default, min, max) ==
    \/ min # <<>> /\ default <= min[1]
    \/ max # <<>> /\ default >= max[1]

\* The two tests of NumberInput.__new__; <<>> stands for a bound that is None.
OutOfRange(default, min, max) ==
    \/ min # <<>> /\ default < min[1]
    \/ max # <<>> /\ default > max[1]

\* NumberInput(default, min=min, max=max, optional=optional, hidden=hidden)
NumberInput(default, min, max, optional, hidden) ==
    [exc |-> IF OutOfRange(default, min, max) THEN "ValueError" ELSE "",
     val |-> [kind |-> "NumberInput", val |-> default, min |-> min, max |-> max,
              optional |-> optional, hidden |-> hidden, force_input |-> FALSE]]

\* StringInput(value, optional=optional, hidden=hidden)
StringInput(value, optional, hidden) ==
    [kind |-> "StringInput", val |-> value, min |-> <<>>, max |-> <<>>,
     optional |-> optional, hidden |-> hidden, force_input |-> FALSE]

\* Choice(choices)
Choice(choices) == Default("Choice", choices)

\* A parameter of a signature: its name, its annotation ("" stands for
\* inspect._empty, a parameter without annotation) and its default.
Param(name, annotation, default) ==
    [name |-> name, annotation |-> annotation, default |-> default]

\* inspect.signature(func).parameters, in order.
ParamsOf(f) ==
    CASE f = "f3" -> <<Param("x", "", NoDefault)>>
      [] f = "f2" -> <<Param("image", "a.Img", NoDefault)>>
      [] f = "f7" -> <<Param("text", "c.Txt", NoDefault)>>
      [] f = "f9" -> <<Param("a", "builtins.int", Default("int", 3)),
                       Param("b", "builtins.int", Default("int", 4))>>
      [] f = "f10" -> <<Param("x", "", NoDefault), Param("unique_id", "", NoDefault)>>
      [] f = "f11" -> <<Param("a", "builtins.int",
                              NumberInput(5, <<>>, <<3>>, FALSE, FALSE).val)>>
      [] f = "f12" -> <<Param("a", "builtins.int",
                              NumberInput(3, <<3>>, <<5>>, FALSE, FALSE).val)>>
      [] OTHER -> <<>>

\* The names of the two hidden inputs every node has.
ReservedNames == {"unique_id", "extra_pnginfo"}

IsPort(p) == p.name \notin ReservedNames

\* The annotations of the parameters of a function that are ports, in order.
ParamTypesOf(f) ==
    LET ports == SelectSeq(ParamsOf(f), IsPort)
    IN  [i \in 1..Len(ports) |-> ports[i].annotation]

\* The element types of a function's return annotation: none without an
\* annotation, one for a plain type, several for a tuple[...].
ReturnTypesOf(f) ==
    CASE f = "f2" -> <<"a.Img">>
      [] f = "f7" -> <<"c.Txt">>
      [] f = "f8" -> <<"c.Txt", "c.Txt">>
      [] f = "f9" -> <<"builtins.int">>
      [] OTHER -> <<>>

\* The value the is_changed callable given to ComfyNode returns for the
\* function: none given, an integer, or float("nan").
IsChangedOf(f) ==
    CASE f = "f2" -> [kind |-> "int", val |-> 5]
      [] f = "f4" -> [kind |-> "nan", val |-> 0]
      [] OTHER -> [kind |-> "none", val |-> 0]

\* The always_run argument given to ComfyNode for the function.
AlwaysRunOf(f) == f = "f5"

\* Versions of a function's source text.
SrcVersions == {1, 2}

\* The top-level statements of a module, run by its import and by every reload:
\* a call of initialize_easy_nodes, of register_type, or a decorated def.
Stmt(kind, a) == [kind |-> kind, a |-> a]

TopLevel(m) ==
    CASE m = "A" -> <<Stmt("init", "False"), Stmt("type", "a.Img"),
                      Stmt("def", "f1"), Stmt("def", "f2"), Stmt("def", "f4")>>
      [] m = "B" -> <<Stmt("def", "f5")>>
      [] m = "C" -> <<Stmt("type", "c.Txt"), Stmt("def", "f3"), Stmt("def", "f7"),
                      Stmt("def", "f8")>>
      [] m = "D" -> <<Stmt("type", "builtins.int"), Stmt("def", "f9"),
                      Stmt("def", "f10")>>
      [] m = "E" -> <<Stmt("def", "f13"), Stmt("def", "f14")>>

\* The workflow_name and display_name the module gives to ComfyNode for the
\* function, "" where it gives none: the method M.go is named "MGo", its
\* default name being the one of the function go.
GivenNameOf(f) == IF f = "f13" THEN "MGo" ELSE ""

\* name_parts of the decorator: the function name split at "_" and title-cased;
\* the default workflow name joins the parts with "", the display name with " ".
TitleOf(f) ==
    CASE f = "f1" -> "Foo"
      [] f = "f2" -> "Bar"
      [] f = "f3" -> "Foo"
      [] f = "f4" -> "Run"
      [] f = "f5" -> "Stop"
      [] f = "f6" -> "Halt"
      [] f = "f7" -> "Baz"
      [] f = "f8" -> "Qux"
      [] f = "f9" -> "Add"
      [] f = "f10" -> "Tag"
      [] f = "f11" -> "Clamp"
      [] f = "f12" -> "Scale"
      [] f = "f13" -> "Go"
      [] f = "f14" -> "Go"

-----------------------------------------------------------------------------
(* The snapshot of the program state, and its commit. *)

Cur ==
    [ANNOTATION_TO_COMFYUI_TYPE |-> ANNOTATION_TO_COMFYUI_TYPE,
     SHOULD_AUTOCONVERT |-> SHOULD_AUTOCONVERT,
     DEFAULT_FORCE_INPUT |-> DEFAULT_FORCE_INPUT,
     COMFYUI_TYPE_TO_ANNOTATION_CLS |-> COMFYUI_TYPE_TO_ANNOTATION_CLS,
     custom_verifiers |-> custom_verifiers,
     after_first_prompt |-> after_first_prompt,
     module_reload_times |-> module_reload_times,
     function_dict |-> function_dict,
     function_checksums |-> function_checksums,
     function_update_times |-> function_update_times,
     current_config |-> current_config,
     configs |-> configs,
     host_class |-> host_class,
     host_display |-> host_display,
     module_attrs |-> module_attrs,
     curr_preview |-> curr_preview,
     curr_unique_id |-> curr_unique_id,
     exc |-> ""]

Commit(s) ==
    /\ ANNOTATION_TO_COMFYUI_TYPE' = s.ANNOTATION_TO_COMFYUI_TYPE
    /\ SHOULD_AUTOCONVERT' = s.SHOULD_AUTOCONVERT
    /\ DEFAULT_FORCE_INPUT' = s.DEFAULT_FORCE_INPUT
    /\ COMFYUI_TYPE_TO_ANNOTATION_CLS' = s.COMFYUI_TYPE_TO_ANNOTATION_CLS
    /\ custom_verifiers' = s.custom_verifiers
    /\ after_first_prompt' = s.after_first_prompt
    /\ module_reload_times' = s.module_reload_times
    /\ function_dict' = s.function_dict
    /\ function_checksums' = s.function_checksums
    /\ function_update_times' = s.function_update_times
    /\ current_config' = s.current_config
    /\ configs' = s.configs
    /\ host_class' = s.host_class
    /\ host_display' = s.host_display
    /\ module_attrs' = s.module_attrs
    /\ curr_preview' = s.curr_preview
    /\ curr_unique_id' = s.curr_unique_id

\* An exception leaves the state as it is at the raise.
Raise(s, e) == [s EXCEPT !.exc = e]

-----------------------------------------------------------------------------
(* Type registry. *)

\* The default validator of a native type.
SubclassVerifier(cls) == [kind |-> "SubclassVerifier", of |-> cls]

\* A validator the caller supplied.
CustomVerifier(v) == [kind |-> "CustomVerifier", of |-> v]

\* Mutant of StoreVerifier: a later registration with a validator replaces it.
StoreVerifierLastWins(s, n, cls, verifier) ==
    IF n \notin DOMAIN s.COMFYUI_TYPE_TO_ANNOTATION_CLS
    THEN [s EXCEPT !.COMFYUI_TYPE_TO_ANNOTATION_CLS = Put(@, n, cls),
                   !.custom_verifiers =
                       Put(@, n, IF verifier # "" THEN CustomVerifier(verifier)
                                 ELSE SubclassVerifier(cls))]
    ELSE IF verifier # ""
    THEN [s EXCEPT !.custom_verifiers = Put(@, n, CustomVerifier(verifier))]
    ELSE s

\* The first type registered under a port-type name is its canonical type and
\* sets its validator; a later one is ignored (with a warning if it has one).
StoreVerifier(s, n, cls, verifier) ==
    IF n \notin DOMAIN s.COMFYUI_TYPE_TO_ANNOTATION_CLS
    THEN [s EXCEPT !.COMFYUI_TYPE_TO_ANNOTATION_CLS = Put(@, n, cls),
                   !.custom_verifiers =
                       Put(@, n, IF verifier # "" THEN CustomVerifier(verifier)
                                 ELSE SubclassVerifier(cls))]
    ELSE s

\* Mutant of RegistrationClosed: the latch is not consulted.
RegistrationNeverClosed(s) == FALSE

\* The test "if _after_first_prompt: return" that opens register_type,
\* initialize_easy_nodes and the decorator.
RegistrationClosed(s) == s.after_first_prompt

\* Mutant of is_registered: no type counts as registered already.
is_registered_never(s, key) == FALSE

\* key in _ANNOTATION_TO_COMFYUI_TYPE
is_registered(s, key) == key \in DOMAIN s.ANNOTATION_TO_COMFYUI_TYPE

register_type(s, cls, name, should_autoconvert, is_auto_register, force_input, verifier) ==
    LET n == IF name = "" THEN ShortName(cls) ELSE name
        key == cls
    IN  IF RegistrationClosed(s) THEN s
        ELSE IF ~is_auto_register /\ is_registered(s, key)
        THEN Raise(s, "AssertionError")
        ELSE IF is_registered(s, key) THEN s
        ELSE [StoreVerifier(s, n, cls, verifier) EXCEPT
                 !.ANNOTATION_TO_COMFYUI_TYPE = Put(@, key, n),
                 !.SHOULD_AUTOCONVERT = Put(@, key, should_autoconvert),
                 !.DEFAULT_FORCE_INPUT = Put(@, key, force_input)]

-----------------------------------------------------------------------------
(* Registration records. *)

\* The key of a function's record in _function_dict, _function_checksums and
\* _function_update_times.
RecordKey(f) == QualName(f)

\* sha256 of a source text, as an integer: distinct texts, distinct values.
Checksum(v) == 4 * v + 1

\* A function object: the function and the version of the source it was
\* compiled from.
FuncObj(f, v) == [f |-> f, ver |-> v]

\* inspect.getsource reads the function's text from the file as it is now.
compute_function_checksum(fobj) == Checksum(disk_src[fobj.f])

\* Mutant of register_function: the record is written before the checks.
register_function_unchecked(s, fobj, checksum, timestamp) ==
    LET q == RecordKey(fobj.f)
        w == [s EXCEPT !.function_dict = Put(@, q, fobj),
                       !.function_checksums = Put(@, q, checksum),
                       !.function_update_times = Put(@, q, timestamp)]
    IN  IF q \in DOMAIN s.function_dict
           /\ (~(s.function_update_times[q] < timestamp) \/ ~(s.function_checksums[q] # checksum))
        THEN Raise(w, "AssertionError")
        ELSE w

register_function(s, fobj, checksum, timestamp) ==
    LET q == RecordKey(fobj.f)
    IN  IF q \in DOMAIN s.function_dict /\ ~(s.function_update_times[q] < timestamp)
        THEN Raise(s, "AssertionError")
        ELSE IF q \in DOMAIN s.function_dict /\ ~(s.function_checksums[q] # checksum)
        THEN Raise(s, "AssertionError")
        ELSE [s EXCEPT !.function_dict = Put(@, q, fobj),
                       !.function_checksums = Put(@, q, checksum),
                       !.function_update_times = Put(@, q, timestamp)]

-----------------------------------------------------------------------------
(* The inference of a node's ports from a signature. *)

\* any_type, the port type of a parameter without annotation.
any_type == "*"

\* _get_type_str: the port-type name a native type is registered under,
\* any_type for inspect._empty, ValueError for a type that is not registered.
try_get_type_str(s, the_type) ==
    IF the_type = "" THEN [exc |-> "", name |-> any_type]
    ELSE IF the_type \notin DOMAIN s.ANNOTATION_TO_COMFYUI_TYPE
    THEN [exc |-> "ValueError", name |-> ""]
    ELSE [exc |-> "", name |-> s.ANNOTATION_TO_COMFYUI_TYPE[the_type]]

\* The description of a port, (type_name, metadata): the "default" entry of
\* the metadata as a sequence of none or one value, its "min" and "max", and
\* whether "forceInput" and "optional" are in it and true.  The description
\* (default.choices,) of a Choice has the type "choices"; a bare type name has
\* no metadata.
Port(type, default, min, max, forceInput, optional) ==
    [type |-> type, default |-> default, min |-> min, max |-> max,
     forceInput |-> forceInput, optional |-> optional]

BareType(type) == Port(type, <<>>, <<>>, <<>>, FALSE, FALSE)

\* The value a default stands for.
PlainDefault(d) ==
    [kind |-> CASE d.kind = "NumberInput" -> "int"
                [] d.kind = "StringInput" -> "str"
                [] OTHER -> d.kind,
     val |-> d.val]

\* Mutant of promoted: a plain default becomes an optional widget.
promoted_optional(d) ==
    CASE d.kind = "str" -> StringInput(d.val, TRUE, FALSE)
      [] d.kind = "int" -> NumberInput(d.val, <<>>, <<>>, TRUE, FALSE).val
      [] OTHER -> d

\* default = StringInput(default) for a plain str, NumberInput(default) for a
\* plain int or float.
promoted(d) ==
    CASE d.kind = "str" -> StringInput(d.val, FALSE, FALSE)
      [] d.kind = "int" -> NumberInput(d.val, <<>>, <<>>, FALSE, FALSE).val
      [] OTHER -> d

\* Mutant of plain_is_optional: a port is optional with or without default.
plain_is_optional_always(d) == TRUE

\* default != inspect.Parameter.empty, the second result of _annotate_input
\* for a default that is no widget.
plain_is_optional(d) == d.kind # "empty"

\* _annotate_input(param_name, annotation, default): the description of the
\* port, is_optional and is_hidden, or the exception of _get_type_str.
annotate_input(s, p) ==
    LET t == try_get_type_str(s, p.annotation)
        d == promoted(p.default)
        force == Get(s.DEFAULT_FORCE_INPUT, p.annotation, FALSE)
    IN  IF t.exc # ""
        THEN [exc |-> t.exc, the_param |-> BareType(""), is_optional |-> FALSE,
              is_hidden |-> FALSE]
        ELSE IF d.kind = "Choice"
        THEN [exc |-> "", the_param |-> BareType("choices"), is_optional |-> FALSE,
              is_hidden |-> FALSE]
        ELSE IF d.kind \in {"StringInput", "NumberInput"}
        THEN [exc |-> "",
              the_param |-> Port(t.name, <<PlainDefault(d)>>, d.min, d.max,
                                 d.force_input, FALSE),
              is_optional |-> d.optional, is_hidden |-> d.hidden]
        ELSE [exc |-> "",
              the_param |-> Port(t.name,
                                 IF d.kind \in {"None", "empty"} THEN <<>>
                                 ELSE <<PlainDefault(d)>>,
                                 <<>>, <<>>,
                                 d.kind \in {"None", "empty"} \/ force,
                                 d.kind = "None"),
              is_optional |-> plain_is_optional(d), is_hidden |-> FALSE]

\* The names of the parameters at the positions I.
NamesAt(params, I) == {params[i].name : i \in I}

\* param_name == "unique_id" or param_name == "extra_pnginfo"
is_reserved(param_name) == param_name \in ReservedNames

\* The loop of _infer_input_types_from_annotations, a[i] being the result of
\* _annotate_input for the i-th parameter.
classify_inputs(params, a) ==
    LET Req == {i \in 1..Len(params) : ~is_reserved(params[i].name) /\ ~a[i].is_optional}
        Hid == {i \in 1..Len(params) : /\ ~is_reserved(params[i].name)
                                       /\ a[i].is_optional /\ a[i].is_hidden}
        Opt == {i \in 1..Len(params) : /\ ~is_reserved(params[i].name)
                                       /\ a[i].is_optional /\ ~a[i].is_hidden}
        At(n) == a[CHOOSE i \in 1..Len(params) : params[i].name = n].the_param
    IN  IF \E i \in 1..Len(params) : a[i].exc # ""
        THEN [exc |-> "ValueError", required |-> EmptyDict, hidden |-> EmptyDict,
              optional |-> EmptyDict]
        ELSE [exc |-> "",
              required |-> [n \in NamesAt(params, Req) |-> At(n)],
              hidden |-> [n \in ReservedNames \cup NamesAt(params, Hid) |->
                             IF n \in NamesAt(params, Hid) THEN At(n)
                             ELSE IF n = "unique_id" THEN BareType("UNIQUE_ID")
                             ELSE BareType("EXTRA_PNGINFO")],
              optional |-> [n \in NamesAt(params, Opt) |-> At(n)]]

\* _infer_input_types_from_annotations for the parameters that are left once
\* self is skipped: the required, hidden and optional inputs, or the exception
\* _annotate_input raised for one of the parameters.
infer_input_types(s, params) ==
    Apply([i \in 1..Len(params) |-> annotate_input(s, params[i])],
          LAMBDA a : classify_inputs(params, a))

\* A return annotation: none (inspect.Parameter.empty), a native type T,
\* list[T], or tuple[...] of elements that are T or list[T].
NoAnnotation == [origin |-> "empty", t |-> "", args |-> <<>>]

Plain(t) == [origin |-> "", t |-> t, args |-> <<>>]

ListOf(t) == [origin |-> "list", t |-> t, args |-> <<>>]

TupleOf(args) == [origin |-> "tuple", t |-> "", args |-> args]

\* inspect.signature(func).return_annotation
ReturnAnnotationOf(f) ==
    CASE Len(ReturnTypesOf(f)) = 0 -> NoAnnotation
      [] Len(ReturnTypesOf(f)) = 1 -> Plain(ReturnTypesOf(f)[1])
      [] OTHER -> TupleOf([i \in 1..Len(ReturnTypesOf(f)) |-> Plain(ReturnTypesOf(f)[i])])

\* _get_fully_qualified_name of an annotation: list[T] has the module and the
\* qualified name of list, tuple[...] those of tuple, a missing annotation
\* those of inspect._empty.
fully_qualified_name(annotation) ==
    CASE annotation.origin = "list" -> "builtins.list"
      [] annotation.origin = "tuple" -> "builtins.tuple"
      [] annotation.origin = "empty" -> "inspect._empty"
      [] OTHER -> annotation.t

\* key not in _ANNOTATION_TO_COMFYUI_TYPE and get_origin(the_type) is list
resolves_element(s, annotation) ==
    /\ fully_qualified_name(annotation) \notin DOMAIN s.ANNOTATION_TO_COMFYUI_TYPE
    /\ annotation.origin = "list"

\* _get_type_str(the_type) for an annotation of any shape: list[T] whose key
\* is not registered is resolved as T, any other key that is not registered
\* raises ValueError unless the annotation is missing, and what is left is
\* looked up with any_type as the default.
get_type_str_of(s, annotation) ==
    LET key == fully_qualified_name(annotation)
    IN  IF resolves_element(s, annotation)
        THEN try_get_type_str(s, annotation.t)
        ELSE IF key \notin DOMAIN s.ANNOTATION_TO_COMFYUI_TYPE /\ annotation.origin # "empty"
        THEN [exc |-> "ValueError", name |-> ""]
        ELSE [exc |-> "", name |-> Get(s.ANNOTATION_TO_COMFYUI_TYPE, key, any_type)]

\* Mutant of is_list_flag: no output is a list.
is_list_flag_never(arg) == FALSE

\* get_origin(arg) is list
is_list_flag(arg) == arg.origin = "list"

\* _infer_return_types_from_annotations for a return annotation, or for the
\* tuple a list of types given to the decorator stands for: the port types of
\* the outputs and their is-list flags, or the exception of _get_type_str.
infer_return_types(s, return_annotation) ==
    LET args == CASE return_annotation.origin = "tuple" -> return_annotation.args
                  [] return_annotation.origin = "empty" -> <<>>
                  [] OTHER -> <<return_annotation>>
        t == [i \in 1..Len(args) |-> try_get_type_str(s, args[i].t)]
    IN  IF \E i \in 1..Len(args) : t[i].exc # ""
        THEN [exc |-> "ValueError", types |-> <<>>, is_list |-> <<>>]
        ELSE [exc |-> "", types |-> [i \in 1..Len(args) |-> t[i].name],
              is_list |-> [i \in 1..Len(args) |-> is_list_flag(args[i])]]

-----------------------------------------------------------------------------
(* Configurations and the node registry. *)

AutoRegisterModes == {"True", "False", "DEFAULT"}

\* bool(auto_register): the DEFAULT sentinel is an enum member, which is true.
Truthy(auto_register) == auto_register # "False"

EasyNodesConfig(auto_register, verify_level, auto_move_tensors) ==
    [auto_register |-> auto_register,
     verify_level |-> verify_level,
     auto_move_tensors |-> auto_move_tensors,
     NODE_CLASS_MAPPINGS |-> EmptyDict,
     NODE_DISPLAY_NAME_MAPPINGS |-> EmptyDict,
     num_registered |-> 0,
     get_node_mappings_called |-> FALSE]

\* config.NODE_CLASS_MAPPINGS: the host's own dictionary when auto_register is
\* True, a dictionary of the configuration otherwise.
ClassMap(s, c) ==
    IF s.configs[c].auto_register = "True" THEN s.host_class
    ELSE s.configs[c].NODE_CLASS_MAPPINGS

DisplayMap(s, c) ==
    IF s.configs[c].auto_register = "True" THEN s.host_display
    ELSE s.configs[c].NODE_DISPLAY_NAME_MAPPINGS

initialize_easy_nodes(s, auto_register, verify_level, auto_move_tensors) ==
    LET c == s.current_config
    IN  IF RegistrationClosed(s) THEN s
        ELSE IF c # 0 /\ ~(s.configs[c].num_registered > 0)
        THEN Raise(s, "AssertionError")
        ELSE IF c # 0 /\ ~(Truthy(s.configs[c].auto_register) \/ ClassMap(s, c) = EmptyDict)
        THEN Raise(s, "AssertionError")
        ELSE [s EXCEPT
                 !.configs = Append(@, EasyNodesConfig(auto_register, verify_level,
                                                       auto_move_tensors)),
                 !.current_config = Len(s.configs) + 1]

\* Mutant of get_node_mappings: the assertion that it was not called before
\* is left out.
get_node_mappings_again(s) ==
    LET c == s.current_config
    IN  IF c = 0 THEN Raise(s, "AssertionError")
        ELSE IF ~(s.configs[c].num_registered > 0) THEN Raise(s, "AssertionError")
        ELSE IF s.configs[c].auto_register = "True" THEN Raise(s, "AssertionError")
        ELSE [s EXCEPT !.configs[c].get_node_mappings_called = TRUE]

get_node_mappings(s) ==
    LET c == s.current_config
    IN  IF c = 0 THEN Raise(s, "AssertionError")
        ELSE IF ~(s.configs[c].num_registered > 0) THEN Raise(s, "AssertionError")
        ELSE IF s.configs[c].auto_register = "True" THEN Raise(s, "AssertionError")
        ELSE IF s.configs[c].get_node_mappings_called THEN Raise(s, "AssertionError")
        ELSE [s EXCEPT !.configs[c].get_node_mappings_called = TRUE]

\* _get_curr_config: initializes with the defaults when nothing did so far.
get_curr_config(s) ==
    IF s.current_config = 0
    THEN initialize_easy_nodes(s, "DEFAULT", "warn", FALSE)
    ELSE s

\* Mutant of all_workflow_names: the host's own nodes are not looked at.
all_workflow_names_own(s, c) == DOMAIN ClassMap(s, c)

all_workflow_names(s, c) == (DOMAIN ClassMap(s, c)) \cup (DOMAIN s.host_class)

all_display_names(s, c) == Values(DisplayMap(s, c)) \cup Values(s.host_display)

all_node_classes(s, c) ==
    {n.cls : n \in Values(ClassMap(s, c))} \cup {n.cls : n \in Values(s.host_class)}

\* The node class of a registration: the class the method belongs to, else a
\* class made for the node ("" stands for None).
NodeClassFor(f) == IF ClassOf(f) # "" THEN ClassOf(f) ELSE "<" \o FullPath(f) \o ">"

\* class_map[workflow_name] = node_class; display_map[workflow_name] = display_name,
\* repeated on the host's dictionaries in the DEFAULT mode; num_registered += 1.
StoreNode(s, c, workflow_name, display_name, node) ==
    LET mode == s.configs[c].auto_register
        s1 == IF mode = "True" THEN s
              ELSE [s EXCEPT
                      !.configs[c].NODE_CLASS_MAPPINGS = Put(@, workflow_name, node),
                      !.configs[c].NODE_DISPLAY_NAME_MAPPINGS =
                          Put(@, workflow_name, display_name)]
        s2 == IF mode \in {"True", "DEFAULT"}
              THEN [s1 EXCEPT !.host_class = Put(@, workflow_name, node),
                              !.host_display = Put(@, workflow_name, display_name)]
              ELSE s1
    IN  [s2 EXCEPT !.configs[c].num_registered = @ + 1]

\* class_dict, the attributes of a node class: the inputs, the port types of
\* the outputs and their is-list flags, the names of the outputs (<<>> for
\* None) and whether the node is an output node.
ClassDict(inputs, return_types, output_is_list, return_names, is_output_node) ==
    [INPUT_TYPES |-> [required |-> inputs.required, hidden |-> inputs.hidden,
                      optional |-> inputs.optional],
     RETURN_TYPES |-> return_types, OUTPUT_IS_LIST |-> output_is_list,
     RETURN_NAMES |-> return_names, OUTPUT_NODE |-> is_output_node]

\* A node the host itself defines.
HostNode ==
    [cls |-> "KSampler", func |-> "", cfg |-> 0,
     class_dict |-> ClassDict([required |-> EmptyDict, hidden |-> EmptyDict,
                               optional |-> EmptyDict], <<>>, <<>>, <<>>, FALSE)]

create_comfy_node(s, c, f, workflow_name, display_name, class_dict) ==
    LET node == [cls |-> NodeClassFor(f), func |-> f, cfg |-> c,
                 class_dict |-> class_dict]
    IN  IF ~s.after_first_prompt /\ workflow_name \in all_workflow_names(s, c)
        THEN Raise(s, "AssertionError")
        ELSE IF ~s.after_first_prompt /\ display_name \in all_display_names(s, c)
        THEN Raise(s, "AssertionError")
        ELSE IF ~s.after_first_prompt /\ ClassOf(f) \in all_node_classes(s, c)
        THEN Raise(s, "AssertionError")
        ELSE StoreNode(s, c, workflow_name, display_name, node)

\* return_types=None
NotGiven == [origin |-> "none", t |-> "", args |-> <<>>]

\* The keyword arguments of ComfyNode that the model follows: "" stands for a
\* name that is None, NotGiven for return_types=None and TupleOf(types) for a
\* list of types, <<>> for return_names=None.
Kw(workflow_name, display_name, return_types, return_names, is_output_node) ==
    [workflow_name |-> workflow_name, display_name |-> display_name,
     return_types |-> return_types, return_names |-> return_names,
     is_output_node |-> is_output_node]

\* Mutant of names_match: any number of names is accepted.
names_match_any(return_names, adjusted_return_types) == TRUE

\* if return_names: assert len(return_names) == len(adjusted_return_types)
names_match(return_names, adjusted_return_types) ==
    Len(return_names) = 0 \/ Len(return_names) = Len(adjusted_return_types)

\* Mutant of force_output: a node is an output node only if marked so.
force_output_never(adjusted_return_types) == FALSE

\* force_output = len(adjusted_return_types) == 0
force_output(adjusted_return_types) == Len(adjusted_return_types) = 0

\* The decorator from _infer_input_types_from_annotations to force_output: the
\* class_dict of the node, or the exception raised.  The list return_types,
\* if given, is used in place of the function's return annotation; the
\* message of the assertion on the names takes len(return_types), a TypeError
\* when return_types is None.
node_types(inputs, ret, kw) ==
    [exc |-> CASE inputs.exc # "" -> inputs.exc
               [] ret.exc # "" -> ret.exc
               [] ~names_match(kw.return_names, ret.types) ->
                    IF kw.return_types = NotGiven THEN "TypeError" ELSE "AssertionError"
               [] OTHER -> "",
     class_dict |-> ClassDict(inputs, ret.types, ret.is_list, kw.return_names,
                              kw.is_output_node \/ force_output(ret.types))]

infer_types(s, f, kw) ==
    Apply(<<infer_input_types(s, ParamsOf(f)),
            infer_return_types(s, IF kw.return_types # NotGiven THEN kw.return_types
                                  ELSE ReturnAnnotationOf(f))>>,
          LAMBDA r : node_types(r[1], r[2], kw))

\* The body of the decorator once the latch and the already-registered
\* assertion are passed.
decorate(s, c, f, kw) ==
    LET m  == ModuleOf(f)
        modify_time == disk_mtime[m]
        s1 == [s EXCEPT !.module_reload_times = Put(@, m, modify_time)]
        s2 == register_function(s1, FuncObj(f, disk_src[f]),
                                compute_function_checksum(FuncObj(f, disk_src[f])),
                                modify_time)
    IN  IF s2.exc # "" THEN s2
        ELSE Apply(infer_types(s2, f, kw),
                   LAMBDA t :
                     IF t.exc # "" THEN Raise(s2, t.exc)
                     ELSE create_comfy_node(s2, c, f,
                              IF kw.workflow_name # "" THEN kw.workflow_name
                              ELSE TitleOf(f),
                              IF kw.display_name # "" THEN kw.display_name
                              ELSE TitleOf(f),
                              t.class_dict))

\* The defaults of a def are evaluated when the def statement runs: a
\* NumberInput with a default out of its range raises there.
DefaultsRaise(f) ==
    \E i \in 1..Len(ParamsOf(f)) :
        LET d == ParamsOf(f)[i].default
        IN  /\ d.kind = "NumberInput"
            /\ NumberInput(d.val, d.min, d.max, d.optional, d.hidden).exc # ""

\* The statement "@ComfyNode(**kw) def f(...)": the call of ComfyNode, the
\* evaluation of the defaults of f, and the call of the decorator on f.
ComfyNodeKw(s, f, kw) ==
    LET s1 == get_curr_config(s)
        c  == s1.current_config
    IN  IF s1.exc # "" THEN s1
        ELSE IF c = 0 THEN Raise(s1, "AttributeError")
        ELSE IF DefaultsRaise(f) THEN Raise(s1, "ValueError")
        ELSE IF RegistrationClosed(s1) THEN s1
        ELSE IF RecordKey(f) \in DOMAIN s1.function_dict THEN Raise(s1, "AssertionError")
        ELSE decorate(s1, c, f, kw)

\* ComfyNode(workflow_name=..., display_name=...)(func); "" stands for None.
ComfyNode(s, f, workflow_name, display_name) ==
    ComfyNodeKw(s, f, Kw(workflow_name, display_name, NotGiven, <<>>, FALSE))

-----------------------------------------------------------------------------
(* Live update. *)

\* current_modified_time > module_reload_time
NeedsReload(s, m) == disk_mtime[m] > Get(s.module_reload_times, m, 0)

\* Mutant of CloseRegistration: the latch is left as it is.
CloseRegistrationSkipped(s) == s

\* _after_first_prompt = True, done right before importlib.reload.
CloseRegistration(s) == [s EXCEPT !.after_first_prompt = TRUE]

\* One top-level statement of module m, at its import or at a reload.  A def
\* binds the function object to its name in the module once its decorator
\* returned; a method is bound in its class instead.
exec_statement(s, m, st) ==
    CASE st.kind = "init" -> initialize_easy_nodes(s, st.a, "warn", FALSE)
      [] st.kind = "type" -> register_type(s, st.a, "", FALSE, FALSE, FALSE, "")
      [] st.kind = "def" ->
           LET s1 == ComfyNode(s, st.a, GivenNameOf(st.a), GivenNameOf(st.a))
           IN  IF s1.exc # "" \/ ClassOf(st.a) # "" THEN s1
               ELSE [s1 EXCEPT !.module_attrs[m] =
                                   Put(@, NameOf(st.a), FuncObj(st.a, disk_src[st.a]))]

\* Mutant of reloaded: registration is closed only while the module reloads.
reloaded_reopens(s, m) ==
    [s EXCEPT !.module_reload_times = Put(@, m, disk_mtime[m]),
              !.after_first_prompt = FALSE]

\* _module_reload_times[module_name] = current_modified_time, after the reload.
reloaded(s, m) == [s EXCEPT !.module_reload_times = Put(@, m, disk_mtime[m])]

\* Mutant of update_function: the re-read function is registered whether or not
\* its fingerprint differs.
update_function_always(s, f) ==
    LET q == RecordKey(f)
        m == ModuleOf(f)
        current_modified_time == disk_mtime[m]
        last_function_update_time == Get(s.function_update_times, q, 0)
    IN  IF current_modified_time > last_function_update_time
           /\ NameOf(f) \in DOMAIN s.module_attrs[m]
        THEN LET updated_func == s.module_attrs[m][NameOf(f)]
                 w == [s EXCEPT
                         !.function_dict = Put(@, q, updated_func),
                         !.function_checksums =
                             Put(@, q, compute_function_checksum(updated_func)),
                         !.function_update_times = Put(@, q, current_modified_time)]
             IN  w
        ELSE s

\* Mutant of update_function: a function is only pulled from its module by
\* the invocation that reloaded the module.
update_function_at_reload(s, f) ==
    IF pc.mode = "reload" THEN update_function_always(s, f) ELSE s

\* Mutant of update_function: the record's timestamp is rewritten on every call.
update_function_restamp(s, f) ==
    [s EXCEPT !.function_update_times = Put(@, RecordKey(f), disk_mtime[ModuleOf(f)])]

\* _get_latest_version_of_func after the module is up to date: the function is
\* pulled from the module by its name and registered if its fingerprint differs.
update_function(s, f) ==
    LET q == RecordKey(f)
        m == ModuleOf(f)
        current_modified_time == disk_mtime[m]
        old_checksum == Get(s.function_checksums, q, 0)
        last_function_update_time == Get(s.function_update_times, q, 0)
    IN  IF current_modified_time > last_function_update_time
           /\ NameOf(f) \in DOMAIN s.module_attrs[m]
        THEN LET updated_func == s.module_attrs[m][NameOf(f)]
                 current_checksum == compute_function_checksum(updated_func)
             IN  IF current_checksum # old_checksum
                 THEN register_function(s, updated_func, current_checksum,
                                        current_modified_time)
                 ELSE s
        ELSE s

-----------------------------------------------------------------------------
(* The change signal. *)

RECURSIVE XOR(_, _)
\* a ^ b on non-negative integers.
XOR(a, b) ==
    IF a = 0 THEN b
    ELSE IF b = 0 THEN a
    ELSE (((a % 2) + (b % 2)) % 2) + (2 * XOR(a \div 2, b \div 2))

IntValue(n) == [kind |-> "int", val |-> n]

NaN == [kind |-> "nan", val |-> 0]

NoSignal == [kind |-> "none", val |-> 0]

\* The signal kept in sig: the last one computed and the node it was computed
\* for, the fingerprint it was computed from, and whether an update of the
\* function's record was accepted since then.
NoSig == [f |-> "", sigv |-> NoSignal, fp |-> 0, upd |-> FALSE]

\* math.isnan
IsNaN(x) == x.kind = "nan"

\* hash(float("nan")) is 0 or derived from the object's address, by the
\* interpreter's version.
NaNHashes == {0, 6}

\* hash(value): an integer, also for float("nan") (whose hash is h).
PyHash(v, h) == IntValue(IF v.kind = "nan" THEN h ELSE v.val)

\* Mutant of change_signal: the custom value is left out of the signal.
change_signal_checksum_only(current_checksum, custom, h) == IntValue(current_checksum)

\* wrapped_is_changed after the live update: original_num is the hash of the
\* custom value, 0 without an is_changed callable.
change_signal(current_checksum, custom, h) ==
    LET original_num == IF custom.kind # "none" THEN PyHash(custom, h) ELSE IntValue(0)
    IN  IF IsNaN(original_num) THEN NaN
        ELSE IntValue(XOR(current_checksum, original_num.val))

-----------------------------------------------------------------------------
(* Node invocation: Python values, their verification, and the call wrapper. *)

\* A Python value: None, an instance of a native type, a list of instances, or
\* a tuple of values.  v is the number an int holds, 0 for another value.
NoneValue == [t |-> "None", cls |-> "NoneType", items |-> <<>>, v |-> 0]

Obj(cls) == [t |-> "obj", cls |-> cls, items |-> <<>>, v |-> 0]

List(items) == [t |-> "list", cls |-> "list", items |-> items, v |-> 0]

Tuple(items) == [t |-> "tuple", cls |-> "tuple", items |-> items, v |-> 0]

IntObj(n) == [t |-> "obj", cls |-> "builtins.int", items |-> <<>>, v |-> n]

\* What a function does when it is run: it returns a value or it raises.
Raises == [t |-> "raise", cls |-> "ClientError", items |-> <<>>, v |-> 0]

\* The function returns what its body computes from its arguments.
Computes == [t |-> "body", cls |-> "", items |-> <<>>, v |-> 0]

\* The value the body of a function computes: add returns a + b.
BodyOf(f, args) == IF f = "f9" THEN IntObj(args[1].v + args[2].v) ELSE NoneValue

\* _get_type_str for an annotation that passed the decorator: the port-type
\* name the native type is registered under (an entry of the dictionary is
\* never rewritten), any_type for inspect._empty.
get_type_str(s, the_type) ==
    IF the_type = "" THEN any_type ELSE s.ANNOTATION_TO_COMFYUI_TYPE[the_type]

\* verifier(arg), TRUE iff the call returns without raising.  The default
\* validator asserts that the value's type and the native type descend from one
\* another; of the client's validators V1 accepts instances of a.Img only and
\* V2 accepts anything.
VerifierAccepts(verifier, arg) ==
    CASE verifier.kind = "SubclassVerifier" -> arg.cls = verifier.of
      [] verifier.of = "V1" -> arg.cls = "a.Img"
      [] OTHER -> TRUE

\* recursive_verify: a list is verified element by element.
RECURSIVE recursive_verify(_, _)
recursive_verify(verifier, val) ==
    IF val.t = "list"
    THEN \A i \in 1..Len(val.items) : recursive_verify(verifier, val.items[i])
    ELSE VerifierAccepts(verifier, val)

\* Mutant of ShouldVerify: the validator runs under every policy.
ShouldVerifyAlways(verify_level) == TRUE

\* config.verify_level in [CheckSeverityMode.WARN, CheckSeverityMode.FATAL]
ShouldVerify(verify_level) == verify_level \in {"warn", "fatal"}

\* Mutant of verify_value: a port type without validator fails under fatal.
verify_value_strict(s, verify_level, val, param_type) ==
    IF val.t = "None" THEN "skip"
    ELSE IF param_type \in DOMAIN s.custom_verifiers
    THEN IF ShouldVerify(verify_level)
            /\ ~recursive_verify(s.custom_verifiers[param_type], val)
         THEN IF verify_level = "fatal" THEN "raise" ELSE "warn"
         ELSE "ok"
    ELSE IF verify_level = "fatal" THEN "raise" ELSE "noverifier"

\* The body of the loop of _verify_values for one value: "skip" for None, "ok",
\* "warn" for a failure that is logged, "raise" for one that is logged and
\* raised as ValueError, "noverifier" for a port type without validator (a
\* warning of its own, and nothing else).
verify_value(s, verify_level, val, param_type) ==
    IF val.t = "None" THEN "skip"
    ELSE IF param_type \in DOMAIN s.custom_verifiers
    THEN IF ShouldVerify(verify_level)
            /\ ~recursive_verify(s.custom_verifiers[param_type], val)
         THEN IF verify_level = "fatal" THEN "raise" ELSE "warn"
         ELSE "ok"
    ELSE "noverifier"

\* _verify_values from the i-th value on: the exception raised ("" for none;
\* types[i] raises IndexError past the end) and the warnings logged, in order.
RECURSIVE verify_values(_, _, _, _, _)
verify_values(s, verify_level, values, types, i) ==
    IF i > Len(values) THEN [exc |-> "", log |-> <<>>]
    ELSE IF i > Len(types) THEN [exc |-> "IndexError", log |-> <<>>]
    ELSE LET o == verify_value(s, verify_level, values[i], types[i])
             rest == verify_values(s, verify_level, values, types, i + 1)
         IN  CASE o = "raise" -> [exc |-> "ValueError", log |-> <<"warn">>]
               [] o \in {"warn", "noverifier"} -> [rest EXCEPT !.log = <<o>> \o @]
               [] OTHER -> rest

\* cls(arg): the instance of cls its constructor makes of a value.
Made(cls, arg) == [t |-> "made", cls |-> cls, items |-> <<>>, v |-> arg.v]

\* comfyui_type(arg): the value converted to the canonical native type.
Converted(cls, arg) ==
    IF arg.t = "list" THEN List([i \in 1..Len(arg.items) |-> Made(cls, arg.items[i])])
    ELSE Made(cls, arg)

\* maybe_autoconvert: the flag is looked up by the port-type name.
maybe_autoconvert(s, comfyui_type_name, arg) ==
    IF Get(s.SHOULD_AUTOCONVERT, comfyui_type_name, FALSE)
    THEN IF comfyui_type_name \in DOMAIN s.COMFYUI_TYPE_TO_ANNOTATION_CLS
         THEN [exc |-> "",
               val |-> Converted(s.COMFYUI_TYPE_TO_ANNOTATION_CLS[comfyui_type_name], arg)]
         ELSE [exc |-> "KeyError", val |-> arg]
    ELSE [exc |-> "", val |-> arg]

\* The settings "easy_nodes.llm_debugging" can have.
LlmModes == {"Off", "On", "AutoFix"}

\* llm_debugging_enabled = get_config_value("easy_nodes.llm_debugging", "Off") != "Off"
llm_debugging_enabled(llm) == llm # "Off"

\* Python's == between a bool and a str: they are never equal.
BoolEqualsStr(b, str) == FALSE

\* Mutant of max_tries: the setting is used whatever the repair mode.
max_tries_setting(llm, setting) == setting

\* max_tries = int(setting) if llm_debugging_enabled == "AutoFix" else 1
max_tries(llm, setting) ==
    IF BoolEqualsStr(llm_debugging_enabled(llm), "AutoFix") THEN setting ELSE 1

\* What a wrapper call ends with: nothing yet, a value returned (the plain
\* result tuple, or the dictionary with "ui" and "result" when wrapped), or an
\* exception (annotated: e.num_interesting_levels is set; origin: the
\* qualified name and the source location its message names, if any).
NoRet ==
    [kind |-> "none", exc |-> "", annotated |-> FALSE, origin |-> <<>>,
     wrapped |-> FALSE, ui |-> <<>>, result |-> <<>>]

Returned(result, wrapped, ui) ==
    [kind |-> "return", exc |-> "", annotated |-> FALSE, origin |-> <<>>,
     wrapped |-> wrapped, ui |-> ui, result |-> result]

Raised(e, annotated) ==
    [kind |-> "raise", exc |-> e, annotated |-> annotated, origin |-> <<>>,
     wrapped |-> FALSE, ui |-> <<>>, result |-> <<>>]

\* code_origin_loc: "Source: " with func.__qualname__ and the file and first
\* line of the function's code (the file is the module's).
code_origin_loc(f) == <<QualName(f), ModuleOf(f)>>

\* An AssertionError or ValueError whose message ends with code_origin_loc.
RaisedAt(e, f) == [Raised(e, FALSE) EXCEPT !.origin = code_origin_loc(f)]

\* if _curr_preview: result = {"ui": _curr_preview.copy(), "result": result}
preview_wrap(previews, result) ==
    IF previews # <<>> THEN Returned(result, TRUE, previews)
    ELSE Returned(result, FALSE, <<>>)

\* if not isinstance(result, tuple): result = (result,)
as_tuple(result) == IF result.t = "tuple" THEN result.items ELSE <<result>>

\* Mutant of check_arity: the number of returned elements is not compared.
check_arity_unchecked(result, num_expected_returns) == TRUE

\* assert len(result) == len(adjusted_return_types)
check_arity(result, num_expected_returns) == Len(result) = num_expected_returns

\* Mutant of check_no_result: any value is accepted and dropped.
check_no_result_unchecked(result) == TRUE

\* assert result is None, for a node without outputs
check_no_result(result) == result.t = "None"

\* Mutant of clear_preview: the buffer is left as the attempt finds it.
clear_preview_skipped(s) == s

\* _curr_preview.clear()
clear_preview(s) == [s EXCEPT !.curr_preview = <<>>]

\* show_text: the text is appended to the preview entries.
show_text(s, text) == [s EXCEPT !.curr_preview = Append(@, text)]

\* The function calling show_text n times.
RECURSIVE show_texts(_, _)
show_texts(s, n) == IF n = 0 THEN s ELSE show_text(show_texts(s, n - 1), "text")

\* The body of the try of _call_function_and_verify_result at attempt
\* try_count.  x is the call: x.args and x.extra are the keywords the function
\* is called with, x.body[k] is what the function does when it is run for the
\* k-th time (and the last of them from then on), x.texts how many times it
\* calls show_text.  The previews are cleared, the function runs, and
\* its result is checked, verified and converted.
try_body(s, verify_level, f, x, try_count) ==
    LET s1 == show_texts(clear_preview(s), x.texts)
        outcome == x.body[IF try_count <= Len(x.body) THEN try_count ELSE Len(x.body)]
        func_result == IF outcome.t = "body" THEN BodyOf(f, x.args) ELSE outcome
        adjusted_return_types ==
            [i \in 1..Len(ReturnTypesOf(f)) |-> get_type_str(s, ReturnTypesOf(f)[i])]
        num_expected_returns == Len(adjusted_return_types)
        result == as_tuple(func_result)
        v == verify_values(s1, verify_level, result, adjusted_return_types, 1)
        new_result == [i \in 1..Len(result) |->
                          maybe_autoconvert(s1, adjusted_return_types[i], result[i])]
    IN  IF func_result.t = "raise"
        THEN [s |-> s1, trace |-> <<"func">>, ret |-> Raised("ClientError", FALSE)]
        ELSE IF num_expected_returns = 0
        THEN [s |-> s1, trace |-> <<"func">>,
              ret |-> IF check_no_result(func_result)
                      THEN Returned(<<NoneValue>>, FALSE, <<>>)
                      ELSE RaisedAt("AssertionError", f)]
        ELSE IF ~check_arity(result, num_expected_returns)
        THEN [s |-> s1, trace |-> <<"func">>, ret |-> RaisedAt("AssertionError", f)]
        ELSE IF v.exc # ""
        THEN [s |-> s1, trace |-> <<"func", "OUTPUT">> \o v.log,
              ret |-> IF v.exc = "ValueError" THEN RaisedAt(v.exc, f)
                      ELSE Raised(v.exc, FALSE)]
        ELSE IF \E i \in 1..Len(result) : new_result[i].exc # ""
        THEN [s |-> s1, trace |-> <<"func", "OUTPUT">> \o v.log,
              ret |-> Raised("KeyError", FALSE)]
        ELSE [s |-> s1, trace |-> <<"func", "OUTPUT">> \o v.log,
              ret |-> preview_wrap(s1.curr_preview,
                                   [i \in 1..Len(result) |-> new_result[i].val])]

\* Mutant of last_try: no attempt is the last one.
last_try_never(try_count, tries) == FALSE

\* if try_count == max_tries: ... raise e
last_try(try_count, tries) == try_count = tries

\* The loop of _call_function_and_verify_result from the test of its condition
\* on: an attempt that raises is the end of the call if it is the last one, and
\* is handed to the repair hook and followed by another otherwise.
RECURSIVE try_loop(_, _, _, _, _, _)
try_loop(s, verify_level, f, x, try_count, trace) ==
    LET tries == max_tries(x.llm, x.max_tries)
        a == try_body(s, verify_level, f, x, try_count + 1)
        tr == trace \o a.trace
    IN  IF ~(try_count < tries)
        THEN [s |-> s, trace |-> trace, ret |-> Raised("AssertionError", FALSE)]
        ELSE IF a.ret.kind = "return" THEN [a EXCEPT !.trace = tr]
        ELSE IF last_try(try_count + 1, tries)
        THEN [s |-> a.s, trace |-> tr, ret |-> [a.ret EXCEPT !.annotated = TRUE]]
        ELSE try_loop(a.s, verify_level, f, x, try_count + 1,
                      IF llm_debugging_enabled(x.llm) THEN Append(tr, "repair") ELSE tr)

call_function_and_verify_result(s, verify_level, f, x, trace) ==
    try_loop(s, verify_level, f, x, 0, trace)

\* param_names
ParamNames(f) == {ParamsOf(f)[i].name : i \in 1..Len(ParamsOf(f))}

\* Mutant of forwarded: every keyword of the host is kept.
forwarded_all(f, extra) == extra

\* kwargs.pop(key) for every key not in param_names: of the keywords that are
\* not ports, the ones the function declares are left.
forwarded(f, extra) == [k \in (DOMAIN extra) \cap ParamNames(f) |-> extra[k]]

\* if key == "unique_id": _curr_unique_id = arg
stash_unique_id(s, f, extra) ==
    IF "unique_id" \in DOMAIN extra THEN extra["unique_id"] ELSE s.curr_unique_id

\* The keywords a function is called with: the values of its ports, in the
\* order of its parameters, and the other keywords by name.
Kwargs(args, extra) == [args |-> args, extra |-> extra]

\* Mutant of wrapper_inputs: the arguments are not verified.
wrapper_inputs_unverified(s, c, f, x) ==
    [trace |-> <<"INPUT">>, ret |-> NoRet, got |-> Kwargs(x.args, forwarded(f, x.extra)),
     uid |-> stash_unique_id(s, f, x.extra)]

\* wrapper up to _get_latest_version_of_func: the keywords the function does
\* not declare are dropped and the others converted, then the values of the
\* ports are verified as "INPUT".  x.args are the keywords of the host for the
\* ports, x.extra its other keywords; c is the configuration the decorator was
\* called under.  The result has the keywords left for the function in got and
\* the value of _curr_unique_id in uid.
wrapper_inputs(s, c, f, x) ==
    LET input_types == [i \in 1..Len(ParamTypesOf(f)) |-> get_type_str(s, ParamTypesOf(f)[i])]
        kwargs == [i \in 1..Len(x.args) |-> maybe_autoconvert(s, input_types[i], x.args[i])]
        input_values == [i \in 1..Len(x.args) |-> kwargs[i].val]
        v == verify_values(s, s.configs[c].verify_level, input_values, input_types, 1)
        got == Kwargs(input_values, forwarded(f, x.extra))
        uid == stash_unique_id(s, f, x.extra)
    IN  IF \E i \in 1..Len(x.args) : kwargs[i].exc # ""
        THEN [trace |-> <<>>, ret |-> Raised("KeyError", FALSE), got |-> got, uid |-> uid]
        ELSE IF v.exc # ""
        THEN [trace |-> <<"INPUT">> \o v.log, ret |-> RaisedAt(v.exc, f), got |-> got,
              uid |-> uid]
        ELSE [trace |-> <<"INPUT">> \o v.log, ret |-> NoRet, got |-> got, uid |-> uid]

\* The record kept of the wrapper call made last: the function, the
\* configuration of its node, the call of the host, the keywords left for the
\* function, the events of the call in order and its outcome.
NoCall ==
    [f |-> "", c |-> 0,
     x |-> [args |-> <<>>, extra |-> EmptyDict, body |-> <<NoneValue>>, texts |-> 0,
            llm |-> "Off", max_tries |-> 1],
     got |-> Kwargs(<<>>, EmptyDict), trace |-> <<>>, ret |-> NoRet]

\* The record kept of a direct call: the function, its arguments, its result.
Probe(op, arg, out) == [op |-> op, arg |-> arg, out |-> out]

NoProbe == Probe("", <<>>, <<>>)

-----------------------------------------------------------------------------
(* Initial state. *)

IdlePc == [mode |-> "idle", m |-> "", idx |-> 0, f |-> "", kind |-> ""]

\* The record kept in last: the function called (op, "" when the step made no
\* registration call), the function, native type or mode it was called for (a)
\* and the exception raised (exc, "" for none).
Last(op, a, exc) == [op |-> op, a |-> a, exc |-> exc]

Init ==
    /\ ANNOTATION_TO_COMFYUI_TYPE = EmptyDict
    /\ SHOULD_AUTOCONVERT = ("str" :> TRUE)
    /\ DEFAULT_FORCE_INPUT = EmptyDict
    /\ COMFYUI_TYPE_TO_ANNOTATION_CLS = EmptyDict
    /\ custom_verifiers = EmptyDict
    /\ after_first_prompt = FALSE
    /\ module_reload_times = EmptyDict
    /\ function_dict = EmptyDict
    /\ function_checksums = EmptyDict
    /\ function_update_times = EmptyDict
    /\ current_config = 0
    /\ configs = <<>>
    /\ host_class = ("KSampler" :> HostNode)
    /\ host_display = ("KSampler" :> "KSampler")
    /\ module_attrs = [m \in Modules |-> EmptyDict]
    /\ disk_mtime = [m \in Modules |-> 0]
    /\ disk_src = [f \in Funcs |-> 1]
    /\ ReloadOnEdit = FALSE
    /\ imported = {}
    /\ pc = IdlePc
    /\ prompted = FALSE
    /\ last = Last("", "", "")
    /\ sig = NoSig
    /\ curr_preview = <<>>
    /\ curr_unique_id = NoneValue
    /\ call = NoCall
    /\ probe = NoProbe

Idle == pc.mode = "idle"

UnchangedEnv == UNCHANGED <<disk_mtime, disk_src, ReloadOnEdit>>

\* The functions that have a node in some node class mapping.
NodeFuncs ==
    {n.func : n \in Values(host_class) \cup
                    UNION {Values(configs[c].NODE_CLASS_MAPPINGS) : c \in 1..Len(configs)}}
    \ {""}

-----------------------------------------------------------------------------
(* Imports and reloads of the client modules, statement by statement.  The    *)
(* interpreter runs one thing at a time: while a module's top level runs      *)
(* nothing else does, and its file is not edited meanwhile.                   *)

\* The modules the host imports.
HostModules == {"A", "B"}

OpOf(st) ==
    CASE st.kind = "init" -> "initialize_easy_nodes"
      [] st.kind = "type" -> "register_type"
      [] st.kind = "def" -> "ComfyNode"

StartImport(m) ==
    /\ Idle
    /\ m \notin imported
    /\ pc' = [mode |-> "import", m |-> m, idx |-> 1, f |-> "", kind |-> ""]
    /\ last' = last
    /\ Commit(Cur)
    /\ UnchangedEnv
    /\ UNCHANGED <<imported, prompted, sig, call, probe>>

ExecStatement ==
    /\ pc.mode \in {"import", "reload"}
    /\ pc.idx <= Len(TopLevel(pc.m))
    /\ LET st == TopLevel(pc.m)[pc.idx]
           s2 == exec_statement(Cur, pc.m, st)
       IN  /\ Commit(s2)
           /\ last' = Last(OpOf(st), st.a, s2.exc)
           /\ pc' = IF s2.exc # "" THEN IdlePc ELSE [pc EXCEPT !.idx = @ + 1]
           /\ call' = IF s2.exc # "" /\ pc.mode = "reload" /\ pc.kind = "wrapper"
                      THEN [call EXCEPT !.ret = Raised(s2.exc, FALSE)]
                      ELSE call
    /\ UnchangedEnv
    /\ UNCHANGED <<imported, prompted, sig, probe>>

FinishImport ==
    /\ pc.mode = "import"
    /\ pc.idx > Len(TopLevel(pc.m))
    /\ imported' = imported \cup {pc.m}
    /\ pc' = IdlePc
    /\ last' = Last("", "", "")
    /\ Commit(Cur)
    /\ UnchangedEnv
    /\ UNCHANGED <<prompted, sig, call, probe>>

-----------------------------------------------------------------------------
(* Node invocations by the host. *)

SigAfter(s2) ==
    IF sig.f # ""
       /\ Get(s2.function_checksums, RecordKey(sig.f), 0)
              # Get(function_checksums, RecordKey(sig.f), 0)
    THEN [sig EXCEPT !.upd = TRUE]
    ELSE sig

\* The nodes in some node class mapping.
Nodes ==
    Values(host_class)
    \cup UNION {Values(configs[c].NODE_CLASS_MAPPINGS) : c \in 1..Len(configs)}

\* Mutant of NodeConfigs: the wrapper of a node reads the configuration that
\* is current when it is called.
NodeConfigsCurrent(f) == IF \E n \in Nodes : n.func = f THEN {current_config} ELSE {}

\* curr_config of the wrapper of f: the configuration its decorator ran under.
NodeConfigs(f) == {n.cfg : n \in {k \in Nodes : k.func = f}}

\* The rest of wrapper and of wrapped_is_changed once the module is up to date
\* (reload_modules is the setting read at the start of the call).  cl is the
\* record of the wrapper call so far.
Finish(s, f, kind, h, cl) ==
    LET s2 == IF ReloadOnEdit THEN update_function(s, f) ELSE s
        q  == RecordKey(f)
        sv == IF s2.exc # "" THEN NoSignal
              ELSE change_signal(s2.function_checksums[q], IsChangedOf(f), h)
        r  == call_function_and_verify_result(
                  s2, s2.configs[cl.c].verify_level, f,
                  [cl.x EXCEPT !.args = cl.got.args, !.extra = cl.got.extra], cl.trace)
    IN  IF kind = "wrapper"
        THEN /\ prompted' = TRUE
             /\ sig' = SigAfter(s2)
             /\ IF s2.exc # ""
                THEN /\ Commit(s2)
                     /\ call' = [cl EXCEPT !.ret = Raised(s2.exc, FALSE)]
                     /\ last' = Last("", "", s2.exc)
                ELSE /\ Commit(r.s)
                     /\ call' = [cl EXCEPT !.trace = r.trace, !.ret = r.ret]
                     /\ last' = Last("", "", r.ret.exc)
        ELSE /\ Commit(s2)
             /\ prompted' = prompted
             /\ call' = call
             /\ sig' = IF s2.exc = ""
                       THEN [f |-> f, sigv |-> sv, fp |-> s2.function_checksums[q],
                             upd |-> FALSE]
                       ELSE SigAfter(s2)
             /\ last' = Last("", "", s2.exc)

\* wrapper and wrapped_is_changed up to the reload of the module, and to their
\* end when there is none.  A wrapper call starts with its arguments; an
\* exception there is the end of it.
InvokeStep(f, kind, h, c, x) ==
    /\ Idle
    /\ f \in NodeFuncs
    /\ ~(kind = "is_changed" /\ AlwaysRunOf(f))
    /\ LET m  == ModuleOf(f)
           w  == wrapper_inputs(Cur, c, f, x)
           cl == IF kind = "wrapper"
                 THEN [f |-> f, c |-> c, x |-> x, got |-> w.got, trace |-> w.trace,
                       ret |-> w.ret]
                 ELSE call
           s0 == IF kind = "wrapper" THEN [Cur EXCEPT !.curr_unique_id = w.uid] ELSE Cur
       IN  IF kind = "wrapper" /\ w.ret.kind = "raise"
           THEN /\ Commit(s0)
                /\ call' = cl
                /\ prompted' = TRUE
                /\ last' = Last("", "", w.ret.exc)
                /\ UNCHANGED <<pc, sig>>
           ELSE IF ReloadOnEdit /\ NeedsReload(s0, m)
           THEN /\ Commit(CloseRegistration(s0))
                /\ pc' = [mode |-> "reload", m |-> m, idx |-> 1, f |-> f, kind |-> kind]
                /\ last' = last
                /\ call' = cl
                /\ UNCHANGED <<prompted, sig>>
           ELSE /\ Finish(s0, f, kind, h, cl)
                /\ pc' = pc
    /\ UnchangedEnv
    /\ UNCHANGED imported

Invoke(f, kind, h, c, x) ==
    /\ InvokeStep(f, kind, h, c, x)
    /\ UNCHANGED probe

\* The call the host makes in the plain case: an instance of the declared
\* type for every parameter, a function that returns what it declares and
\* shows nothing, no repair mode.
PlainValue(the_type) == IF the_type = "" THEN NoneValue ELSE Obj(the_type)

PlainCall(f) ==
    [args |-> [i \in 1..Len(ParamTypesOf(f)) |-> PlainValue(ParamTypesOf(f)[i])],
     extra |-> EmptyDict,
     body |-> <<CASE Len(ReturnTypesOf(f)) = 0 -> NoneValue
                  [] Len(ReturnTypesOf(f)) = 1 -> PlainValue(ReturnTypesOf(f)[1])
                  [] OTHER -> Tuple([i \in 1..Len(ReturnTypesOf(f)) |->
                                        PlainValue(ReturnTypesOf(f)[i])])>>,
     texts |-> 0, llm |-> "Off", max_tries |-> 1]

\* The wrapper of a node of f called with x.
CallWrapper(f, x) == \E c \in NodeConfigs(f) : Invoke(f, "wrapper", 0, c, x)

InvokeWrapper(f) == CallWrapper(f, PlainCall(f))

InvokeIsChanged(f, h) == Invoke(f, "is_changed", h, 0, NoCall.x)

\* wrapped_is_changed of an always_run node: float("nan"), nothing else.
InvokeAlwaysRun(f) ==
    /\ Idle
    /\ f \in NodeFuncs
    /\ AlwaysRunOf(f)
    /\ last' = Last("", "", "")
    /\ sig' = [f |-> f, sigv |-> NaN, fp |-> 0, upd |-> FALSE]
    /\ Commit(Cur)
    /\ UnchangedEnv
    /\ UNCHANGED <<imported, pc, prompted, call, probe>>

FinishReload(h) ==
    /\ pc.mode = "reload"
    /\ pc.idx > Len(TopLevel(pc.m))
    /\ Finish(reloaded(Cur, pc.m), pc.f, pc.kind, h, call)
    /\ pc' = IdlePc
    /\ UnchangedEnv
    /\ UNCHANGED <<imported, probe>>

\* The hash values float("nan") can have for the function's custom value.
HashChoices(f) == IF IsChangedOf(f).kind = "nan" THEN NaNHashes ELSE {0}

-----------------------------------------------------------------------------
(* The environment: the files and the settings. *)

\* The functions whose source gets edited once their module is imported.
EditedFuncs == {"f1", "f2"}

\* The file of module m gets the modification time t, and the source of its
\* function f the version v.
EditModule(m, t, f, v) ==
    /\ Idle
    /\ m \in imported
    /\ ModuleOf(f) = m
    /\ disk_mtime' = [disk_mtime EXCEPT ![m] = t]
    /\ disk_src' = [disk_src EXCEPT ![f] = v]
    /\ last' = last
    /\ Commit(Cur)
    /\ UNCHANGED <<ReloadOnEdit, imported, pc, prompted, sig, call, probe>>

SetReloadOnEdit(b) ==
    /\ Idle
    /\ ReloadOnEdit' = b
    /\ last' = last
    /\ Commit(Cur)
    /\ UNCHANGED <<disk_mtime, disk_src, imported, pc, prompted, sig, call, probe>>

-----------------------------------------------------------------------------
(* Calls made directly by a client, one call per step. *)

RegisterTypeCall(cls, name, should_autoconvert, is_auto_register, force_input, verifier) ==
    /\ Idle
    /\ LET s2 == register_type(Cur, cls, name, should_autoconvert, is_auto_register,
                               force_input, verifier)
       IN  /\ Commit(s2)
           /\ last' = Last("register_type", cls, s2.exc)
    /\ UnchangedEnv
    /\ UNCHANGED <<imported, pc, prompted, sig, call, probe>>

RegisterFunctionCall(f, v, checksum, timestamp) ==
    /\ Idle
    /\ LET s2 == register_function(Cur, FuncObj(f, v), checksum, timestamp)
       IN  /\ Commit(s2)
           /\ last' = Last("_register_function", f, s2.exc)
    /\ UnchangedEnv
    /\ UNCHANGED <<imported, pc, prompted, sig, call, probe>>

InitializeCall(auto_register, verify_level) ==
    /\ Idle
    /\ Len(configs) < MaxConfigs
    /\ LET s2 == initialize_easy_nodes(Cur, auto_register, verify_level, FALSE)
       IN  /\ Commit(s2)
           /\ last' = Last("initialize_easy_nodes", auto_register, s2.exc)
    /\ UnchangedEnv
    /\ UNCHANGED <<imported, pc, prompted, sig, call, probe>>

DecorateCall(f, workflow_name, display_name) ==
    /\ Idle
    /\ LET s2 == ComfyNode(Cur, f, workflow_name, display_name)
       IN  /\ Commit(s2)
           /\ last' = Last("ComfyNode", f, s2.exc)
    /\ UnchangedEnv
    /\ UNCHANGED <<imported, pc, prompted, sig, call, probe>>

GetNodeMappingsCall ==
    /\ Idle
    /\ LET s2 == get_node_mappings(Cur)
           c  == current_config
       IN  /\ Commit(s2)
           /\ last' = Last("get_node_mappings", "", s2.exc)
           /\ probe' = Probe("get_node_mappings", c,
                             IF s2.exc # "" THEN <<>>
                             ELSE <<s2.configs[c].NODE_CLASS_MAPPINGS,
                                    s2.configs[c].NODE_DISPLAY_NAME_MAPPINGS>>)
    /\ UnchangedEnv
    /\ UNCHANGED <<imported, pc, prompted, sig, call>>

-----------------------------------------------------------------------------
(* A client registering native types under port-type names. *)

\* The port-type names given to register_type ("" stands for None).
TypeNames == {"", "Txt"}

NextTypes ==
    \E cls \in NativeTypes : \E name \in TypeNames : \E should_autoconvert \in BOOLEAN :
      \E is_auto_register \in BOOLEAN : \E verifier \in Verifiers :
        RegisterTypeCall(cls, name, should_autoconvert, is_auto_register, FALSE, verifier)

SpecTypes == Init /\ [][NextTypes]_vars

-----------------------------------------------------------------------------
(* The live-update tracker and the decorator calling _register_function, for  *)
(* any function, fingerprint and timestamp.                                   *)

RecordedFuncs == {"f1", "f2", "f3"}

NextRegisterFunction ==
    \E f \in RecordedFuncs : \E v \in SrcVersions : \E w \in SrcVersions : \E ts \in Time :
        RegisterFunctionCall(f, v, Checksum(w), ts)

SpecRegisterFunction == Init /\ [][NextRegisterFunction]_vars

-----------------------------------------------------------------------------
(* A client initializing the engine and decorating functions, with the names *)
(* it chooses.                                                                *)

\* The workflow_name and display_name arguments of ComfyNode ("" for None).
WorkflowNames == {"", "KSampler", "Foo2"}

DisplayNames == {"", "Foo2"}

\* The functions the client decorates.
DecoratedFuncs == {"f1", "f3", "f4", "f6"}

NextRegistry ==
    \/ \E auto_register \in AutoRegisterModes : InitializeCall(auto_register, "warn")
    \/ \E f \in DecoratedFuncs : \E workflow_name \in WorkflowNames :
         \E display_name \in DisplayNames :
          DecorateCall(f, workflow_name, display_name)

SpecRegistry == Init /\ [][NextRegistry]_vars

-----------------------------------------------------------------------------
(* A client that initializes the engine with a severity policy and registers *)
(* a native type, the host importing the client module C and calling its     *)
(* nodes with any arguments, the functions returning anything.               *)

\* CheckSeverityMode
VerifyLevels == {"off", "warn", "fatal"}

\* The values the host passes for a parameter.
ArgValues == {NoneValue, Obj("a.Img"), Obj("c.Txt")}

\* What a function does when it is run.
Outcomes ==
    {Raises, NoneValue, Obj("a.Img"), Obj("c.Txt"),
     Tuple(<<Obj("c.Txt"), Obj("c.Txt")>>), Tuple(<<Obj("c.Txt"), Obj("a.Img")>>)}

\* The calls of the wrapper of f without repair mode.
Calls(f) ==
    [args : [1..Len(ParamTypesOf(f)) -> ArgValues], extra : {EmptyDict},
     body : {<<o>> : o \in Outcomes},
     texts : 0..MaxTexts, llm : {"Off"}, max_tries : {1}]

NextCall ==
    \/ \E verify_level \in VerifyLevels : InitializeCall("False", verify_level)
    \/ StartImport("C")
    \/ ExecStatement
    \/ FinishImport
    \/ \E f \in Funcs : \E x \in Calls(f) : CallWrapper(f, x)

SpecCall == Init /\ [][NextCall]_vars

-----------------------------------------------------------------------------
(* The host importing the client module C and calling its nodes with the      *)
(* repair mode and the maximum number of tries set to anything, the functions *)
(* raising or returning on their first run and on the later ones.             *)

\* What a function does when it is run, as far as a retry is concerned: it
\* raises, returns what it declares, or returns an empty tuple (which no
\* declaration allows).
RetryOutcomes(f) == {Raises, PlainCall(f).body[1], Tuple(<<>>)}

\* The calls of the wrapper of f with plain arguments.
RetryCalls(f) ==
    [args : {PlainCall(f).args}, extra : {EmptyDict},
     body : {<<o>> : o \in RetryOutcomes(f)}
            \cup {<<o1, o2>> : o1 \in RetryOutcomes(f), o2 \in RetryOutcomes(f)},
     texts : {0}, llm : LlmModes, max_tries : 1..MaxTries]

NextRetry ==
    \/ StartImport("C")
    \/ ExecStatement
    \/ FinishImport
    \/ \E f \in Funcs : \E x \in RetryCalls(f) : CallWrapper(f, x)

SpecRetry == Init /\ [][NextRetry]_vars

-----------------------------------------------------------------------------
(* The host running the client module C with live update, under the fatal    *)
(* policy or the default one: edits of the file, and calls of the edited     *)
(* function that fail in every way.                                           *)

\* The calls of the wrapper of f with plain or failing arguments, the function
\* raising, or returning what it declares, an image or an empty tuple.
FrameCalls(f) ==
    [args : {PlainCall(f).args, [i \in 1..Len(ParamTypesOf(f)) |-> Obj("a.Img")]},
     extra : {EmptyDict},
     body : {<<o>> : o \in RetryOutcomes(f) \cup {Obj("a.Img")}},
     texts : {0}, llm : {"Off"}, max_tries : {1}]

NextFrame ==
    \/ InitializeCall("False", "fatal")
    \/ StartImport("C")
    \/ ExecStatement
    \/ FinishImport
    \/ \E x \in FrameCalls("f7") : CallWrapper("f7", x)
    \/ FinishReload(0)
    \/ \E t \in Time : \E v \in SrcVersions : EditModule("C", t, "f7", v)
    \/ \E b \in BOOLEAN : SetReloadOnEdit(b)

SpecFrame == Init /\ [][NextFrame]_vars

-----------------------------------------------------------------------------
(* A client that registers the text type under a port-type name, with or     *)
(* without conversion, and decorates two functions with text ports; the host *)
(* calling the nodes with any arguments, the functions returning anything.   *)

\* The port-type names the text type is registered under ("" stands for None).
ConvertNames == {"", "str"}

ConvertFuncs == {"f7", "f8"}

\* The calls of the wrapper of f that show nothing.
ConvertCalls(f) ==
    [args : [1..Len(ParamTypesOf(f)) -> ArgValues], extra : {EmptyDict},
     body : {<<o>> : o \in Outcomes}, texts : {0}, llm : {"Off"}, max_tries : {1}]

NextConvert ==
    \/ \E name \in ConvertNames : \E should_autoconvert \in BOOLEAN :
          RegisterTypeCall("c.Txt", name, should_autoconvert, FALSE, FALSE, "")
    \/ \E f \in ConvertFuncs : DecorateCall(f, "", "")
    \/ \E f \in ConvertFuncs : \E x \in ConvertCalls(f) : CallWrapper(f, x)

SpecConvert == Init /\ [][NextConvert]_vars

-----------------------------------------------------------------------------
(* A client decorating a function that declares the hidden input unique_id   *)
(* and one that declares no hidden input; the host calling the nodes with    *)
(* any keywords beside the one of the port.                                   *)

KeywordFuncs == {"f3", "f10"}

\* The keywords of the host that are no ports: the two hidden inputs and one
\* no node declares.
ExtraNames == {"unique_id", "extra_pnginfo", "seed"}

\* The node ids of the host.
UidValues == {IntObj(1), IntObj(2)}

ExtraKwargs ==
    {[k \in K |-> IF k = "unique_id" THEN u ELSE Obj("builtins.dict")] :
        K \in SUBSET ExtraNames, u \in UidValues}

\* The calls of the wrapper of f with any keywords, the function returning None.
KeywordCalls(f) ==
    [args : [1..Len(ParamTypesOf(f)) -> {NoneValue, Obj("a.Img")}], extra : ExtraKwargs,
     body : {<<NoneValue>>}, texts : {0}, llm : {"Off"}, max_tries : {1}]

NextKeywords ==
    \/ \E f \in KeywordFuncs : DecorateCall(f, "", "")
    \/ \E f \in KeywordFuncs : \E x \in KeywordCalls(f) : CallWrapper(f, x)

SpecKeywords == Init /\ [][NextKeywords]_vars

-----------------------------------------------------------------------------
(* Direct calls of the widget constructor, of the inference functions and of *)
(* the decorator with its keyword arguments, one call per step.              *)

NumberInputCall(default, min, max) ==
    /\ Idle
    /\ LET out == NumberInput(default, min, max, FALSE, FALSE)
       IN  /\ probe' = Probe("NumberInput",
                             [default |-> default, min |-> min, max |-> max], out)
           /\ last' = Last("", "", out.exc)
    /\ Commit(Cur)
    /\ UnchangedEnv
    /\ UNCHANGED <<imported, pc, prompted, sig, call>>

InferInputsCall(params) ==
    /\ Idle
    /\ LET out == infer_input_types(Cur, params)
       IN  /\ probe' = Probe("_infer_input_types_from_annotations", params, out)
           /\ last' = Last("", "", out.exc)
    /\ Commit(Cur)
    /\ UnchangedEnv
    /\ UNCHANGED <<imported, pc, prompted, sig, call>>

GetTypeStrCall(annotation) ==
    /\ Idle
    /\ LET out == get_type_str_of(Cur, annotation)
       IN  /\ probe' = Probe("_get_type_str", annotation, out)
           /\ last' = Last("", "", out.exc)
    /\ Commit(Cur)
    /\ UnchangedEnv
    /\ UNCHANGED <<imported, pc, prompted, sig, call>>

InferReturnsCall(return_annotation) ==
    /\ Idle
    /\ LET out == infer_return_types(Cur, return_annotation)
       IN  /\ probe' = Probe("_infer_return_types_from_annotations", return_annotation,
                             out)
           /\ last' = Last("", "", out.exc)
    /\ Commit(Cur)
    /\ UnchangedEnv
    /\ UNCHANGED <<imported, pc, prompted, sig, call>>

DecorateKw(f, kw) ==
    /\ Idle
    /\ LET s2 == ComfyNodeKw(Cur, f, kw)
       IN  /\ Commit(s2)
           /\ last' = Last("ComfyNode", f, s2.exc)
    /\ UnchangedEnv
    /\ UNCHANGED <<imported, pc, prompted, sig, call, probe>>

-----------------------------------------------------------------------------
(* A client constructing number widgets with any default and bounds, and     *)
(* decorating functions that have such a widget as the default of a          *)
(* parameter.                                                                 *)

Numbers == 0..MaxNum

\* A bound of a widget: None, or a number.
Bounds == {<<>>} \cup {<<n>> : n \in Numbers}

WidgetFuncs == {"f11", "f12"}

NextWidget ==
    \/ \E default \in Numbers : \E min \in Bounds : \E max \in Bounds :
          NumberInputCall(default, min, max)
    \/ RegisterTypeCall("builtins.int", "", FALSE, FALSE, FALSE, "")
    \/ \E f \in WidgetFuncs : DecorateCall(f, "", "")

SpecWidget == Init /\ [][NextWidget]_vars

-----------------------------------------------------------------------------
(* A client registering two native types, and the inference functions called *)
(* on any parameter list and any return annotation.                           *)

InferredTypes == {"a.Img", "c.Txt"}

\* The defaults of the parameters: none, None, a plain int, a plain str, an
\* object of another kind, an optional number widget, an optional and hidden
\* text widget, and a choice.
ProbeDefaults ==
    {NoDefault, Default("None", 0), Default("int", 3), Default("str", 0),
     Default("obj", 0), NumberInput(3, <<>>, <<>>, TRUE, FALSE).val,
     StringInput(0, TRUE, TRUE), Choice(0)}

\* The annotations: none, a registered type and one that is never registered.
ProbeTypes == {"", "a.Img", "b.Img"}

\* The parameter lists: one parameter of any name, a port followed by a
\* parameter with the name of a hidden input, and two ports.
ProbeParams ==
    {<<Param(n, a, d)>> : n \in {"x"} \cup ReservedNames, a \in ProbeTypes,
                          d \in ProbeDefaults}
    \cup {<<Param("x", "a.Img", d1), Param(n, a, d2)>> :
             d1 \in {NoDefault, Default("obj", 0)}, n \in ReservedNames,
             a \in ProbeTypes, d2 \in {NoDefault, Default("None", 0), Default("int", 3)}}
    \cup {<<Param("x", a, d1), Param("y", "", d2)>> :
             a \in {"", "a.Img"},
             d1 \in {NoDefault, Default("None", 0), Default("int", 3)},
             d2 \in {NoDefault, Default("None", 0), Default("str", 0)}}

\* The elements of a tuple[...]: T or list[T].
ProbeElements == {Plain(t) : t \in ProbeTypes \ {""}} \cup {ListOf(t) : t \in InferredTypes}

ProbeAnnotations ==
    {NoAnnotation} \cup ProbeElements
    \cup {TupleOf(<<e>>) : e \in ProbeElements}
    \cup {TupleOf(<<e1, e2>>) : e1 \in ProbeElements, e2 \in ProbeElements}

NextInfer ==
    \/ \E cls \in InferredTypes : \E force_input \in BOOLEAN :
          RegisterTypeCall(cls, "", FALSE, FALSE, force_input, "")
    \/ \E params \in ProbeParams : InferInputsCall(params)
    \/ \E return_annotation \in ProbeAnnotations : InferReturnsCall(return_annotation)

SpecInfer == Init /\ [][NextInfer]_vars

-----------------------------------------------------------------------------
(* A client registering two native types and decorating functions with any   *)
(* return_types, return_names and is_output_node.                             *)

OutputFuncs == {"f3", "f8"}

OutputKws ==
    {Kw("", "", return_types, return_names, is_output_node) :
        return_types \in {NotGiven, TupleOf(<<>>), TupleOf(<<Plain("a.Img")>>),
                          TupleOf(<<Plain("a.Img"), ListOf("c.Txt")>>)},
        return_names \in {<<>>, <<"x">>, <<"x", "y">>},
        is_output_node \in BOOLEAN}

NextOutputs ==
    \/ \E cls \in InferredTypes : RegisterTypeCall(cls, "", FALSE, FALSE, FALSE, "")
    \/ \E f \in OutputFuncs : \E kw \in OutputKws : DecorateKw(f, kw)

SpecOutputs == Init /\ [][NextOutputs]_vars

-----------------------------------------------------------------------------
(* The host importing the client module D and calling the node of add with   *)
(* any two numbers.                                                           *)

\* The calls of the wrapper of add: two numbers, the body of add run on them,
\* and no preview shown.
AddCalls ==
    [args : [1..2 -> {IntObj(n) : n \in 0..MaxArg}], extra : {EmptyDict},
     body : {<<Computes>>}, texts : {0}, llm : {"Off"}, max_tries : {1}]

NextAdd ==
    \/ StartImport("D")
    \/ ExecStatement
    \/ FinishImport
    \/ \E x \in AddCalls : CallWrapper("f9", x)

SpecAdd == Init /\ [][NextAdd]_vars

-----------------------------------------------------------------------------
(***************************************************************************)
(* Registrations of two types, every flag of register_type varied, so that *)
(* a type is registered again with other flags and another validator.      *)
(***************************************************************************)

RepeatedTypes == {"a.Img", "c.Txt"}

NextRepeat ==
    \E cls \in RepeatedTypes : \E name \in TypeNames : \E should_autoconvert \in BOOLEAN :
      \E is_auto_register \in BOOLEAN : \E force_input \in BOOLEAN :
        \E verifier \in {"", "V1"} :
          RegisterTypeCall(cls, name, should_autoconvert, is_auto_register, force_input,
                           verifier)

SpecRepeat == Init /\ [][NextRepeat]_vars

(***************************************************************************)
(* Resolutions of annotations while types are registered: two classes and  *)
(* list itself, which the field-setter path registers under its qualified  *)
(* name when a class has an attribute that is a list.                      *)
(***************************************************************************)

ResolvedTypes == {"a.Img", "c.Txt", "builtins.list"}

\* The annotations resolved: none, T and list[T], T registered or not.
ResolvedAnnotations ==
    {NoAnnotation} \cup {Plain(t) : t \in NativeTypes} \cup {ListOf(t) : t \in NativeTypes}

NextResolve ==
    \/ \E cls \in ResolvedTypes : \E is_auto_register \in BOOLEAN :
          RegisterTypeCall(cls, IF is_auto_register THEN cls ELSE "", FALSE,
                           is_auto_register, FALSE, "")
    \/ \E annotation \in ResolvedAnnotations : GetTypeStrCall(annotation)

SpecResolve == Init /\ [][NextResolve]_vars

(***************************************************************************)
(* A package's __init__: initialize_easy_nodes, the decorated functions of *)
(* its modules, get_node_mappings, and the same again for the next package. *)
(***************************************************************************)

ExportedFuncs == {"f1", "f5", "f10"}

NextMappings ==
    \/ \E auto_register \in AutoRegisterModes : InitializeCall(auto_register, "warn")
    \/ \E f \in ExportedFuncs : DecorateCall(f, "", "")
    \/ GetNodeMappingsCall

SpecMappings == Init /\ [][NextMappings]_vars

(***************************************************************************)
(* Two initializations with their own severity policy, nodes created under *)
(* either of them, and calls of the nodes with values that pass or fail     *)
(* the validator of Txt.                                                    *)
(***************************************************************************)

ConfigFuncs == {"f7", "f8"}

\* The calls of the wrapper of f: a Txt or an Img for every argument, and a
\* body that returns what f declares or an Img in place of a Txt.
ConfigCalls(f) ==
    [args : [1..Len(ParamTypesOf(f)) -> {Obj("a.Img"), Obj("c.Txt")}],
     extra : {EmptyDict},
     body : IF f = "f7" THEN {<<Obj("c.Txt")>>, <<Obj("a.Img")>>}
            ELSE {<<Tuple(<<Obj("c.Txt"), Obj("c.Txt")>>)>>,
                  <<Tuple(<<Obj("c.Txt"), Obj("a.Img")>>)>>},
     texts : {0}, llm : {"Off"}, max_tries : {1}]

NextConfigs ==
    \/ RegisterTypeCall("c.Txt", "", FALSE, FALSE, FALSE, "")
    \/ \E verify_level \in VerifyLevels : InitializeCall("DEFAULT", verify_level)
    \/ \E f \in ConfigFuncs : DecorateCall(f, "", "")
    \/ \E f \in ConfigFuncs : \E x \in ConfigCalls(f) : CallWrapper(f, x)

SpecConfigs == Init /\ [][NextConfigs]_vars

(***************************************************************************)
(* The host running the module E, whose class M has a method go next to    *)
(* the module's function go, with live update and edits of either.         *)
(***************************************************************************)

ShadowFuncs == {"f13", "f14"}

NextShadow ==
    \/ StartImport("E")
    \/ ExecStatement
    \/ FinishImport
    \/ \E f \in ShadowFuncs : InvokeWrapper(f)
    \/ \E f \in ShadowFuncs : InvokeIsChanged(f, 0)
    \/ FinishReload(0)
    \/ \E t \in Time : \E f \in ShadowFuncs : \E v \in SrcVersions :
          EditModule("E", t, f, v)
    \/ \E b \in BOOLEAN : SetReloadOnEdit(b)

SpecShadow == Init /\ [][NextShadow]_vars

-----------------------------------------------------------------------------
(* The host importing the client module C under any severity policy and      *)
(* calling its nodes, whose functions show any number of texts and then      *)
(* raise or return anything.                                                 *)
(* probe keeps the preview entries each call found in the buffer.             *)

PreviewFuncs == {"f3", "f7", "f8"}

\* The calls of the wrapper of f with plain arguments.
PreviewCalls(f) ==
    [args : {PlainCall(f).args}, extra : {EmptyDict},
     body : {<<o>> : o \in Outcomes},
     texts : 0..MaxTexts, llm : {"Off"}, max_tries : {1}]

\* The wrapper of a node of f called with x.
PreviewCall(f, x) ==
    /\ \E c \in NodeConfigs(f) : InvokeStep(f, "wrapper", 0, c, x)
    /\ probe' = Probe("wrapper", f, curr_preview)

NextPreview ==
    \/ \E verify_level \in VerifyLevels : InitializeCall("False", verify_level)
    \/ StartImport("C")
    \/ ExecStatement
    \/ FinishImport
    \/ \E f \in PreviewFuncs : \E x \in PreviewCalls(f) : PreviewCall(f, x)

SpecPreview == Init /\ [][NextPreview]_vars

-----------------------------------------------------------------------------
(* The host running the client module A with live update: the import, edits  *)
(* of the file and node invocations.                                          *)

Next ==
    \/ StartImport("A")
    \/ ExecStatement
    \/ FinishImport
    \/ \E f \in Funcs : InvokeWrapper(f)
    \/ FinishReload(0)
    \/ \E t \in Time : \E f \in EditedFuncs : \E v \in SrcVersions :
          EditModule("A", t, f, v)
    \/ \E b \in BOOLEAN : SetReloadOnEdit(b)

Spec == Init /\ [][Next]_vars

-----------------------------------------------------------------------------
(* The host querying the change signals of the nodes of module A, with edits *)
(* of one function.                                                           *)

NextSignal ==
    \/ StartImport("A")
    \/ ExecStatement
    \/ FinishImport
    \/ \E f \in Funcs : \E h \in HashChoices(f) : InvokeIsChanged(f, h)
    \/ \E h \in (IF pc.f \in Funcs THEN HashChoices(pc.f) ELSE {0}) : FinishReload(h)
    \/ \E t \in Time : \E v \in SrcVersions : EditModule("A", t, "f2", v)
    \/ \E b \in BOOLEAN : SetReloadOnEdit(b)

SpecSignal == Init /\ [][NextSignal]_vars

-----------------------------------------------------------------------------
(* The host running the client modules A and B: imports at any time, node    *)
(* invocations, edits of one function of A.                                   *)

NextHost ==
    \/ \E m \in HostModules : StartImport(m)
    \/ ExecStatement
    \/ FinishImport
    \/ \E f \in Funcs : InvokeWrapper(f)
    \/ \E f \in Funcs : InvokeAlwaysRun(f)
    \/ FinishReload(0)
    \/ \E t \in Time : \E v \in SrcVersions : EditModule("A", t, "f1", v)
    \/ \E b \in BOOLEAN : SetReloadOnEdit(b)

SpecHost == Init /\ [][NextHost]_vars

-----------------------------------------------------------------------------
(* The type registry: first validator wins. *)

\* The port-type name a register_type call registers under.
PortName(cls, name) == IF name = "" THEN ShortName(cls) ELSE name

\* C1: over any sequence of register_type calls made with the latch open, the
\* validator stored for a port-type name is the one the first registration
\* under that name established (the validator it supplied, else the default
\* subclass validator of its native type, set when a native type not yet
\* registered comes under a name that has no validator), and no later
\* registration under the name, with or without a validator of its own,
\* replaces it.
C1_FirstValidatorWins ==
    [][/\ \A n \in DOMAIN custom_verifiers :
             /\ n \in DOMAIN custom_verifiers'
             /\ custom_verifiers'[n] = custom_verifiers[n]
       /\ \A cls \in NativeTypes : \A name \in TypeNames : \A ac \in BOOLEAN :
            \A auto \in BOOLEAN : \A verifier \in Verifiers :
              LET n == PortName(cls, name)
              IN  (/\ cls \notin DOMAIN ANNOTATION_TO_COMFYUI_TYPE
                   /\ n \notin DOMAIN custom_verifiers
                   /\ RegisterTypeCall(cls, name, ac, auto, FALSE, verifier))
                  => /\ last'.exc = ""
                     /\ n \in DOMAIN custom_verifiers'
                     /\ custom_verifiers'[n] =
                            IF verifier # "" THEN CustomVerifier(verifier)
                            ELSE SubclassVerifier(cls)]_vars

\* Two native types are registered under the port-type name Img, b.Img last;
\* the validator of Img is the one a.Img brought.
C1_Witness ==
    /\ DOMAIN ANNOTATION_TO_COMFYUI_TYPE = {"a.Img", "b.Img"}
    /\ ANNOTATION_TO_COMFYUI_TYPE["a.Img"] = "Img"
    /\ ANNOTATION_TO_COMFYUI_TYPE["b.Img"] = "Img"
    /\ COMFYUI_TYPE_TO_ANNOTATION_CLS["Img"] = "a.Img"
    /\ custom_verifiers["Img"] = CustomVerifier("V1")
    /\ last = Last("register_type", "b.Img", "")

-----------------------------------------------------------------------------
(* The consistency assertions of _register_function. *)

\* C2: _register_function called for a function identity that has a record
\* raises when the new timestamp is not strictly newer than the stored one or
\* the new fingerprint equals the stored one, and then leaves the record's
\* implementation reference, fingerprint and timestamp as they were; otherwise
\* it succeeds and replaces all three.
C2_RegisterFunctionConsistency ==
    [][\A f \in RecordedFuncs : \A v \in SrcVersions : \A w \in SrcVersions : \A ts \in Time :
         LET q == RecordKey(f)
         IN  (/\ q \in DOMAIN function_dict
              /\ last'.a = f
              /\ RegisterFunctionCall(f, v, Checksum(w), ts))
             => IF ts <= function_update_times[q] \/ Checksum(w) = function_checksums[q]
                THEN /\ last'.exc = "AssertionError"
                     /\ function_dict'[q] = function_dict[q]
                     /\ function_checksums'[q] = function_checksums[q]
                     /\ function_update_times'[q] = function_update_times[q]
                ELSE /\ last'.exc = ""
                     /\ function_dict'[q] = FuncObj(f, v)
                     /\ function_checksums'[q] = Checksum(w)
                     /\ function_update_times'[q] = ts]_vars

\* A call for bar was refused after its record had been replaced by a newer
\* implementation.
C2_Witness ==
    /\ last = Last("_register_function", "f2", "AssertionError")
    /\ "bar" \in DOMAIN function_dict
    /\ function_dict["bar"] = FuncObj("f2", 2)
    /\ function_checksums["bar"] = Checksum(2)
    /\ function_update_times["bar"] = 1

-----------------------------------------------------------------------------
(* Live update of a function on invocation. *)

\* The interpreter is about to run a top-level statement of a module: the only
\* step it can take is that statement.
Executing == pc.mode \in {"import", "reload"} /\ pc.idx <= Len(TopLevel(pc.m))

\* The re-executed top level of a reloaded module is through: the only step
\* left is the rest of the invocation that started the reload.
Reloaded == pc.mode = "reload" /\ pc.idx > Len(TopLevel(pc.m))

\* The record of function f is replaced by the function the module now holds
\* under its name, with the fingerprint of its source and the file's time.
RecordReplaced(f) ==
    LET q == RecordKey(f)
        m == ModuleOf(f)
    IN  /\ function_dict'[q] = module_attrs[m][NameOf(f)]
        /\ function_checksums'[q] = Checksum(disk_src[f])
        /\ function_update_times'[q] = disk_mtime[m]

RecordKept(q) ==
    /\ function_dict'[q] = function_dict[q]
    /\ function_checksums'[q] = function_checksums[q]
    /\ function_update_times'[q] = function_update_times[q]

\* The module holds a function under f's name whose fingerprint differs from
\* the stored one.
RereadDiffers(f) ==
    /\ NameOf(f) \in DOMAIN module_attrs[ModuleOf(f)]
    /\ Checksum(disk_src[f]) # function_checksums[RecordKey(f)]

\* C3: on a node invocation with live update enabled, a module whose file is
\* newer than its recorded reload time is reloaded (the reload starts, and at
\* its end the reload time is the file's time); the record of the invoked
\* function is then replaced if and only if the function re-read from the
\* module has a fingerprint different from the stored one, and keeps its three
\* fields otherwise; without a newer file there is no reload, and the record
\* is replaced only by a re-read function of a different fingerprint.  The
\* latch plays no part in it.
C3_LiveUpdate ==
    [][/\ \A f \in Funcs :
            (/\ Idle
             /\ ReloadOnEdit
             /\ call'.f = f
             /\ f \in NodeFuncs
             /\ InvokeWrapper(f))
            => LET m == ModuleOf(f)
                   q == RecordKey(f)
               IN  IF disk_mtime[m] > module_reload_times[m]
                   THEN /\ pc'.mode = "reload" /\ pc'.m = m /\ pc'.f = f
                        /\ RecordKept(q)
                   ELSE /\ pc' = pc
                        /\ module_reload_times' = module_reload_times
                        /\ IF disk_mtime[m] > function_update_times[q] /\ RereadDiffers(f)
                           THEN RecordReplaced(f)
                           ELSE RecordKept(q)
       /\ Reloaded
            => LET m == pc.m
                   q == RecordKey(pc.f)
               IN  /\ pc' = IdlePc
                   /\ module_reload_times'[m] = disk_mtime[m]
                   /\ disk_mtime[m] > function_update_times[q]
                   /\ IF RereadDiffers(pc.f) THEN RecordReplaced(pc.f) ELSE RecordKept(q)]_vars

\* Module A was reloaded twice, the second time with the latch closed: foo's
\* record was replaced at the first reload, bar's at the second.
C3_Witness ==
    /\ Idle
    /\ after_first_prompt
    /\ "A" \in DOMAIN module_reload_times
    /\ module_reload_times["A"] = 2
    /\ function_update_times["foo"] = 1
    /\ function_dict["foo"] = FuncObj("f1", 2)
    /\ function_update_times["bar"] = 2
    /\ function_dict["bar"] = FuncObj("f2", 2)
    /\ function_checksums["bar"] = Checksum(2)

-----------------------------------------------------------------------------
(* The latch. *)

\* The tables a registration writes: the type registry, the function record
\* maps, the node class and display-name maps, the current configuration.
RegistrationTables ==
    <<ANNOTATION_TO_COMFYUI_TYPE, SHOULD_AUTOCONVERT, DEFAULT_FORCE_INPUT,
      COMFYUI_TYPE_TO_ANNOTATION_CLS, custom_verifiers, function_dict,
      function_checksums, function_update_times, configs, host_class, host_display,
      current_config>>

\* C4: once the latch is set, every call of register_type, of a ComfyNode
\* decorator and of initialize_easy_nodes returns without raising and leaves
\* the type registry, the function record maps, the node class and
\* display-name maps and the current configuration unchanged.
C4_ClosedLatchNoOps ==
    [][(after_first_prompt /\ Executing)
       => /\ last'.op \in {"register_type", "ComfyNode", "initialize_easy_nodes"}
          /\ last'.exc = ""
          /\ UNCHANGED RegistrationTables]_vars

\* Module B was imported after the latch was closed: its decorator returned
\* and registered nothing.
C4_Witness ==
    /\ after_first_prompt
    /\ pc.mode = "import" /\ pc.m = "B" /\ pc.idx = 2
    /\ last = Last("ComfyNode", "f5", "")
    /\ "stop" \notin DOMAIN function_dict
    /\ "Stop" \notin DOMAIN host_class

\* C5 as stated: after the host invoked a node wrapper, every registration
\* attempt (a decorator on a function without a record, a register_type call)
\* is refused: no record, no type entry, no node mapping is created.
C5_RefusedAfterFirstEvaluation ==
    [][(prompted /\ Executing /\ TopLevel(pc.m)[pc.idx].kind \in {"def", "type"})
       => UNCHANGED <<ANNOTATION_TO_COMFYUI_TYPE, function_dict, function_checksums,
                      function_update_times, configs, host_class, host_display>>]_vars

\* C6: a live reload starts with the latch set, so the decorators, the type
\* registrations and the initialize call which the reload re-executes neither
\* raise nor change the registration table, the type registry or the record
\* maps; after it, only the record of the invoked function can change.
C6_ReloadReexecution ==
    [][/\ pc'.mode = "reload" => after_first_prompt'
       /\ (pc.mode = "reload" /\ Executing)
            => /\ last'.exc = ""
               /\ UNCHANGED RegistrationTables
       /\ Reloaded
            => /\ \A q \in DOMAIN function_dict : q # RecordKey(pc.f) => RecordKept(q)
               /\ DOMAIN function_dict' = DOMAIN function_dict
               /\ UNCHANGED <<ANNOTATION_TO_COMFYUI_TYPE, custom_verifiers, configs,
                              host_class, host_display, current_config>>]_vars

\* The reload of module A re-executed its whole top level, the decorator of
\* K.run last.
C6_Witness ==
    /\ Reloaded
    /\ pc.m = "A"
    /\ last = Last("ComfyNode", "f4", "")
    /\ DOMAIN function_dict = {"foo", "bar", "K.run"}

-----------------------------------------------------------------------------
(* The change signal. *)

\* A change-signal query came to its end (where only such queries, imports and
\* edits are made: a step of the idle interpreter that leaves the files and
\* the setting alone, or the end of a reload).
IsChangedDone ==
    \/ Idle /\ pc' = pc /\ UNCHANGED <<disk_mtime, disk_src, ReloadOnEdit>>
    \/ Reloaded

\* hash(value) of the fixed custom value of a node, 0 without is_changed.
CustomInt(f) == IF IsChangedOf(f).kind = "int" THEN IsChangedOf(f).val ELSE 0

\* C7: for a node without always_run whose is_changed value is fixed (or
\* absent), the change signal is the exclusive-or of the current fingerprint
\* and the integer of the custom value; two successive calls with no accepted
\* update between them return equal signals, and a call at a fingerprint
\* different from the one of the call before returns a different signal.
C7_ChangeSignal ==
    [][(IsChangedDone /\ last'.exc = "" /\ sig'.f # ""
          /\ ~AlwaysRunOf(sig'.f) /\ IsChangedOf(sig'.f).kind # "nan")
       => LET f == sig'.f
              q == RecordKey(f)
          IN  /\ sig'.sigv = IntValue(XOR(function_checksums'[q], CustomInt(f)))
              /\ (sig.f = f /\ ~sig.upd /\ function_checksums'[q] = function_checksums[q])
                    => sig'.sigv = sig.sigv
              /\ (sig.f = f /\ function_checksums'[q] # sig.fp)
                    => sig'.sigv # sig.sigv]_vars

\* The signal of bar (custom value 5) was computed after an update of its
\* record was accepted.
C7_Witness ==
    /\ sig.f = "f2"
    /\ sig.fp = Checksum(2)
    /\ sig.sigv = IntValue(XOR(Checksum(2), 5))
    /\ function_update_times["bar"] > 0
    /\ function_dict["bar"] = FuncObj("f2", 2)

\* C8 as stated: when the is_changed callable returns float("nan"), the
\* node's change signal is float("nan"), not an integer mixed with the
\* fingerprint.
C8_NaNPropagates ==
    [][(IsChangedDone /\ last'.exc = "" /\ sig'.f # ""
          /\ IsChangedOf(sig'.f).kind = "nan")
       => IsNaN(sig'.sigv)]_vars

-----------------------------------------------------------------------------
(* Uniqueness in the node registry. *)

\* The names and classes a registration made now would be checked against:
\* those of the current configuration and those of the host.
CurClassMap ==
    IF current_config = 0 THEN EmptyDict ELSE configs[current_config].NODE_CLASS_MAPPINGS

CurDisplayMap ==
    IF current_config = 0 THEN EmptyDict
    ELSE configs[current_config].NODE_DISPLAY_NAME_MAPPINGS

Duplicate(f, workflow_name, display_name) ==
    \/ (IF workflow_name = "" THEN TitleOf(f) ELSE workflow_name)
          \in (DOMAIN CurClassMap) \cup (DOMAIN host_class)
    \/ (IF display_name = "" THEN TitleOf(f) ELSE display_name)
          \in Values(CurDisplayMap) \cup Values(host_display)
    \/ /\ ClassOf(f) # ""
       /\ ClassOf(f) \in {n.cls : n \in Values(CurClassMap) \cup Values(host_class)}

\* Every node in a node class mapping, with its identifier and display name.
Entries(class_map, display_map) ==
    {[wf |-> w, dn |-> display_map[w], node |-> class_map[w]] : w \in DOMAIN class_map}

RegisteredNodes ==
    Entries(host_class, host_display)
    \cup UNION {Entries(configs[c].NODE_CLASS_MAPPINGS,
                        configs[c].NODE_DISPLAY_NAME_MAPPINGS) : c \in 1..Len(configs)}

UniqueNodes ==
    \A x \in RegisteredNodes : \A y \in RegisteredNodes :
        x # y => /\ x.wf # y.wf
                 /\ x.dn # y.dn
                 /\ x.node.cls # y.node.cls

\* The step stores no node: the host's maps and the maps of every
\* configuration are as before (a configuration made by the step has none).
NoNodeStored ==
    /\ host_class' = host_class
    /\ host_display' = host_display
    /\ \A c \in 1..Len(configs') :
          /\ configs'[c].NODE_CLASS_MAPPINGS =
                IF c <= Len(configs) THEN configs[c].NODE_CLASS_MAPPINGS ELSE EmptyDict
          /\ configs'[c].NODE_DISPLAY_NAME_MAPPINGS =
                IF c <= Len(configs) THEN configs[c].NODE_DISPLAY_NAME_MAPPINGS
                ELSE EmptyDict

\* C9: with the latch open, a node registration whose workflow name, display
\* name or owner class is already in the maps of the engine or of the host
\* raises and stores no node; so after any sequence of registrations no two
\* registered nodes share a workflow name or a display name and no class owns
\* two nodes.
C9_UniqueRegistrations ==
    [][/\ \A f \in DecoratedFuncs : \A wf \in WorkflowNames : \A dn \in DisplayNames :
            (/\ ~after_first_prompt
             /\ last'.op = "ComfyNode" /\ last'.a = f
             /\ Duplicate(f, wf, dn)
             /\ DecorateCall(f, wf, dn))
            => /\ last'.exc = "AssertionError"
               /\ NoNodeStored
       /\ ~NoNodeStored => UniqueNodes']_vars

\* K.run has a node; the decorator of K.halt, a method of the same class, got
\* as far as its record and raised.
C9_Witness ==
    /\ last = Last("ComfyNode", "f6", "AssertionError")
    /\ "K.halt" \in DOMAIN function_dict
    /\ \E x \in RegisteredNodes : x.node.func = "f4"
    /\ ~\E x \in RegisteredNodes : x.node.func = "f6"

\* The functions that have a record, told apart by their full path.
RecordedPaths == {FullPath(function_dict[q].f) : q \in DOMAIN function_dict}

\* C10 as stated: every function identity, identified by its fully qualified
\* path, has a record of its own: a function whose path has no record can be
\* registered (under names that are free) whatever other functions are
\* registered, and registering it leaves the records of the others alone.
C10_RecordPerFullPath ==
    [][\A f \in DecoratedFuncs : \A wf \in WorkflowNames : \A dn \in DisplayNames :
         (/\ ~after_first_prompt
          /\ last'.op = "ComfyNode" /\ last'.a = f
          /\ FullPath(f) \notin RecordedPaths
          /\ ~Duplicate(f, wf, dn)
          /\ DecorateCall(f, wf, dn))
         => /\ last'.exc = ""
            /\ FullPath(f) \in RecordedPaths'
            /\ \A q \in DOMAIN function_dict : RecordKept(q)]_vars

-----------------------------------------------------------------------------
(* Wrapper calls: what the record of the last call says. *)

\* The last wrapper call has ended.
CallDone == call.f # "" /\ call.ret.kind # "none"

\* The severity policy of the configuration the called node was made under.
CallLevel == configs[call.c].verify_level

InTrace(e) == \E i \in 1..Len(call.trace) : call.trace[i] = e

\* The wrapped function was run in the last call.
Ran == InTrace("func")

\* The value is not None, its declared type's port type has a registered
\* validator, and the validator raises for the value or for one of its leaves.
FailsValidator(val, the_type) ==
    LET param_type == get_type_str(Cur, the_type)
    IN  /\ val.t # "None"
        /\ param_type \in DOMAIN custom_verifiers
        /\ ~recursive_verify(custom_verifiers[param_type], val)

\* An argument of the last call fails its validator.
InputFails ==
    \E i \in 1..Len(call.x.args) : FailsValidator(call.x.args[i], ParamTypesOf(call.f)[i])

\* What the function did when it was run last.
FuncResult == call.x.body[Len(call.x.body)]

\* The elements the function returned, a value that is no tuple being one.
ReturnedValues == IF FuncResult.t = "tuple" THEN FuncResult.items ELSE <<FuncResult>>

\* The function was run and returned as many elements as the node declares,
\* at least one.
ReturnedDeclared ==
    /\ Ran
    /\ FuncResult.t # "raise"
    /\ Len(ReturnTypesOf(call.f)) >= 1
    /\ Len(ReturnedValues) = Len(ReturnTypesOf(call.f))

\* An element the function returned fails its validator.
OutputFails ==
    /\ ReturnedDeclared
    /\ \E i \in 1..Len(ReturnedValues) :
          FailsValidator(ReturnedValues[i], ReturnTypesOf(call.f)[i])

\* The call returned the elements the function returned.
ReturnedResult == call.ret.kind = "return" /\ call.ret.result = ReturnedValues

\* C11: when a value fails the registered validator of its port type, the fatal
\* policy makes verification raise and no result is returned; the warn policy
\* logs the failure and the call goes on (the function runs after a failing
\* argument, the result is returned after a failing returned value); the off
\* policy logs and raises nothing and the call goes on the same way.
C11_SeverityPolicies ==
    CallDone /\ (InputFails \/ OutputFails) =>
        CASE CallLevel = "fatal" ->
               /\ call.ret.kind = "raise"
               /\ call.ret.exc = "ValueError"
               /\ InputFails => ~Ran
          [] CallLevel = "warn" ->
               /\ InTrace("warn")
               /\ InputFails => Ran
               /\ OutputFails => ReturnedResult
          [] OTHER ->
               /\ ~InTrace("warn")
               /\ InputFails => Ran
               /\ OutputFails => ReturnedResult

\* A call under each policy with an argument that fails: the last call under
\* warn, logged, with a returned value that fails as well and is returned.
C11_Witness ==
    /\ CallDone
    /\ CallLevel = "warn"
    /\ InputFails
    /\ OutputFails
    /\ InTrace("warn")
    /\ ReturnedResult

-----------------------------------------------------------------------------
\* C12: in every wrapper call the arguments are verified before the function is
\* run, and what it returned is verified after it ran and before the wrapper
\* returns it; under the fatal policy the function is never run in a call with
\* an argument that fails its validator, and a call whose function returned a
\* value that fails its validator ends with an error, not with the result.
C12_VerificationOrder ==
    CallDone =>
        /\ \A i \in 1..Len(call.trace) :
              call.trace[i] = "func" => \E j \in 1..(i - 1) : call.trace[j] = "INPUT"
        /\ \A i \in 1..Len(call.trace) :
              call.trace[i] = "OUTPUT" => i > 1 /\ call.trace[i - 1] = "func"
        /\ call.ret.kind = "return" /\ Len(ReturnTypesOf(call.f)) >= 1 => InTrace("OUTPUT")
        /\ CallLevel = "fatal" /\ InputFails => ~Ran
        /\ CallLevel = "fatal" /\ OutputFails => call.ret.kind = "raise"

\* A call under fatal whose function ran on verified arguments and returned a
\* value that fails: the call ends with the error of the output verification.
C12_Witness ==
    /\ CallDone
    /\ CallLevel = "fatal"
    /\ OutputFails
    /\ call.trace = <<"INPUT", "func", "OUTPUT", "warn">>
    /\ call.ret.kind = "raise"

-----------------------------------------------------------------------------
\* The port type of the declared type has no registered validator.
NoValidator(the_type) == get_type_str(Cur, the_type) \notin DOMAIN custom_verifiers

\* C13: a value whose port type has no registered validator is valid under
\* every policy, fatal included: a call whose arguments all have such a port
\* type gets past the input verification, which logs "no verifier" for the
\* values that are not None, and a verification error is only ever raised for a
\* value that fails a registered validator.
C13_NoValidatorIsValid ==
    CallDone =>
        /\ (\A i \in 1..Len(call.x.args) : NoValidator(ParamTypesOf(call.f)[i]))
              => /\ Ran
                 /\ \A i \in 1..Len(call.x.args) :
                       call.x.args[i].t # "None" => call.trace[i + 1] = "noverifier"
        /\ call.ret.exc = "ValueError" => InputFails \/ OutputFails

\* A call under fatal with a value for a parameter without validator: it is
\* logged, the function runs and the call returns.
C13_Witness ==
    /\ CallDone
    /\ CallLevel = "fatal"
    /\ Len(call.x.args) = 1
    /\ NoValidator(ParamTypesOf(call.f)[1])
    /\ call.x.args[1].t # "None"
    /\ call.trace = <<"INPUT", "noverifier", "func">>
    /\ call.ret.kind = "return"

-----------------------------------------------------------------------------
\* The function of the last call was run and returned (it did not raise).
FuncReturned == Ran /\ FuncResult.t # "raise"

\* C14: for a node without declared outputs, a call whose function returns None
\* returns exactly the tuple (None,), and a call whose function returns
\* anything else raises and returns no result.
C14_ZeroOutputs ==
    CallDone /\ FuncReturned /\ Len(ReturnTypesOf(call.f)) = 0 =>
        IF FuncResult.t = "None"
        THEN call.ret = Returned(<<NoneValue>>, FALSE, <<>>)
        ELSE call.ret.kind = "raise" /\ call.ret.exc = "AssertionError"

\* A node without outputs whose function returned None, and showed a text.
C14_Witness ==
    /\ CallDone
    /\ FuncReturned
    /\ Len(ReturnTypesOf(call.f)) = 0
    /\ FuncResult.t = "None"
    /\ call.x.texts > 0
    /\ call.ret = Returned(<<NoneValue>>, FALSE, <<>>)

-----------------------------------------------------------------------------
\* C15: for a node with n >= 1 declared outputs a returned value that is no
\* tuple counts as one element; a call whose function returned a number of
\* elements other than n raises the arity error, whose message names the
\* function's qualified name and source location; and a result the call
\* returns has exactly n elements.
C15_ReturnArity ==
    CallDone /\ Len(ReturnTypesOf(call.f)) >= 1 =>
        /\ FuncReturned /\ Len(ReturnedValues) # Len(ReturnTypesOf(call.f))
              => /\ call.ret.kind = "raise"
                 /\ call.ret.exc = "AssertionError"
                 /\ call.ret.origin = <<QualName(call.f), ModuleOf(call.f)>>
        /\ call.ret.kind = "return"
              => /\ Len(call.ret.result) = Len(ReturnTypesOf(call.f))
                 /\ call.ret.result = ReturnedValues
        /\ FuncReturned /\ FuncResult.t # "tuple" /\ Len(ReturnTypesOf(call.f)) = 1
           /\ ~(CallLevel = "fatal" /\ OutputFails)
              => call.ret.kind = "return" /\ call.ret.result = <<FuncResult>>

\* A node with two outputs whose function returned one value that is no tuple.
C15_Witness ==
    /\ CallDone
    /\ Len(ReturnTypesOf(call.f)) = 2
    /\ FuncReturned
    /\ FuncResult.t = "obj"
    /\ call.ret.exc = "AssertionError"
    /\ call.ret.origin = <<QualName(call.f), ModuleOf(call.f)>>

-----------------------------------------------------------------------------
\* C16: every call that returns, whatever the number of declared outputs, zero
\* included, returns the dictionary with the preview entries under "ui" and the
\* result tuple under "result" if the function produced a preview entry during
\* the call, and the plain result tuple otherwise.
C16_PreviewPayload ==
    CallDone /\ call.ret.kind = "return" =>
        IF call.x.texts > 0
        THEN call.ret.wrapped /\ Len(call.ret.ui) = call.x.texts
        ELSE ~call.ret.wrapped

-----------------------------------------------------------------------------
\* How many times the function was run in the last call.
RECURSIVE CountFunc(_)
CountFunc(trace) ==
    IF trace = <<>> THEN 0
    ELSE (IF trace[1] = "func" THEN 1 ELSE 0) + CountFunc(Tail(trace))

Invocations == CountFunc(call.trace)

\* C17: in one wrapper call that gets to run the function, it is run at most as
\* many times as the configured maximum number of tries, and exactly once when
\* the repair mode is off or the maximum is left at its default of one.
C17_BoundedTries ==
    CallDone /\ Ran =>
        /\ Invocations <= call.x.max_tries
        /\ call.x.llm = "Off" \/ call.x.max_tries = 1 => Invocations = 1

\* A call with the repair mode off and a maximum of more than one try, whose
\* function raised at its first run and would have returned at a second.
C17_Witness ==
    /\ CallDone
    /\ call.x.llm = "Off"
    /\ call.x.max_tries > 1
    /\ Len(call.x.body) = 2
    /\ call.x.body[1] = Raises
    /\ call.x.body[2] # Raises
    /\ Invocations = 1
    /\ call.ret.kind = "raise"

-----------------------------------------------------------------------------
\* The function raises every time it is run.
AlwaysRaises == \A k \in 1..Len(call.x.body) : call.x.body[k] = Raises

\* C18: with the repair mode set to "AutoFix" and a maximum of N > 1 tries, a
\* function that raises every time is handed to the repair hook and retried:
\* it is run N times in all before the exception is raised to the host.
C18_AutoFixRetries ==
    CallDone /\ Ran /\ call.x.llm = "AutoFix" /\ call.x.max_tries > 1 /\ AlwaysRaises =>
        /\ Invocations = call.x.max_tries
        /\ InTrace("repair")
        /\ call.ret.kind = "raise"

-----------------------------------------------------------------------------
\* What the function did at its last run of the last call.
LastRun ==
    call.x.body[IF Invocations <= Len(call.x.body) THEN Invocations ELSE Len(call.x.body)]

\* The value is not what a node with n declared outputs may return.
WrongArity(o, n) ==
    /\ o.t # "raise"
    /\ IF n = 0 THEN o.t # "None"
       ELSE (IF o.t = "tuple" THEN Len(o.items) ELSE 1) # n

\* C19: an invocation error is never swallowed: when the function raised or
\* returned the wrong number of elements at its last run, the wrapper raises
\* that exception, with the count of interesting frames set on it, and returns
\* no result.
C19_ErrorsNotSwallowed ==
    CallDone /\ Ran =>
        /\ LastRun = Raises
              => /\ call.ret.kind = "raise"
                 /\ call.ret.exc = "ClientError"
                 /\ call.ret.annotated
        /\ WrongArity(LastRun, Len(ReturnTypesOf(call.f)))
              => /\ call.ret.kind = "raise"
                 /\ call.ret.exc = "AssertionError"
                 /\ call.ret.annotated

\* A call in repair mode whose function returned an empty tuple for two
\* declared outputs: the assertion error is raised, annotated.
C19_Witness ==
    /\ CallDone
    /\ Ran
    /\ call.x.llm = "On"
    /\ Len(ReturnTypesOf(call.f)) = 2
    /\ WrongArity(LastRun, 2)
    /\ call.ret.kind = "raise"
    /\ call.ret.exc = "AssertionError"
    /\ call.ret.annotated

-----------------------------------------------------------------------------
\* The file of the function's module was modified after the module was loaded
\* last or after the function's record was written last.
EditPending(f) ==
    \/ disk_mtime[ModuleOf(f)] > Get(module_reload_times, ModuleOf(f), 0)
    \/ disk_mtime[ModuleOf(f)] > Get(function_update_times, RecordKey(f), 0)

\* The type registry, the node class and display-name maps and the function
\* records.
Registries ==
    <<ANNOTATION_TO_COMFYUI_TYPE, SHOULD_AUTOCONVERT, DEFAULT_FORCE_INPUT,
      COMFYUI_TYPE_TO_ANNOTATION_CLS, custom_verifiers, configs, host_class,
      host_display, function_dict, function_checksums, function_update_times>>

\* The step is a whole wrapper call, or the end of one after a reload, and the
\* call ends with a verification error or an error of the invocation.
FailingCallStep ==
    /\ pc'.mode = "idle"
    /\ call'.ret.kind = "raise"
    /\ call'.ret.exc \in {"ValueError", "ClientError", "AssertionError"}
    /\ \/ Idle /\ call'.f \in NodeFuncs /\ CallWrapper(call'.f, call'.x)
       \/ pc.mode = "reload" /\ pc.kind = "wrapper" /\ FinishReload(0)

\* C20: a wrapper call that ends with a verification error or an invocation
\* error, no edit of the source being pending, leaves the type registry, the
\* node class and display-name maps and every function's record as they were.
C20_FailingCallFrame ==
    [][FailingCallStep /\ ~EditPending(call'.f) => UNCHANGED Registries]_vars

\* A call with live update on that ended with an error, nothing pending, for a
\* function whose record a live update had rewritten before.
C20_Witness ==
    /\ Idle
    /\ CallDone
    /\ call.ret.kind = "raise"
    /\ last.exc = call.ret.exc
    /\ ReloadOnEdit
    /\ ~EditPending(call.f)
    /\ Get(function_update_times, RecordKey(call.f), 0) > 0


-----------------------------------------------------------------------------
(* Automatic conversion. *)

\* The flag the canonical type of a port type was registered with.
RegisteredAutoConvert(port) == SHOULD_AUTOCONVERT[COMFYUI_TYPE_TO_ANNOTATION_CLS[port]]

\* What a value on a port of the declared type becomes if the flag of the
\* canonical type of the port decides: a new instance of the canonical type,
\* or the value itself.
OnPort(the_type, val) ==
    LET port == ANNOTATION_TO_COMFYUI_TYPE[the_type]
    IN  IF RegisteredAutoConvert(port)
        THEN Converted(COMFYUI_TYPE_TO_ANNOTATION_CLS[port], val)
        ELSE val

\* C21: in a call that runs the function, the function receives for every port
\* the host's value converted to the canonical type of the port type if that
\* type was registered with conversion and the value itself if not, and the
\* same holds of every element the call returns.
C21_AutoConvert ==
    CallDone /\ Ran /\ call.f \in ConvertFuncs =>
        /\ \A i \in 1..Len(call.x.args) :
              call.got.args[i] = OnPort(ParamTypesOf(call.f)[i], call.x.args[i])
        /\ call.ret.kind = "return" =>
              \A i \in 1..Len(call.ret.result) :
                  call.ret.result[i] = OnPort(ReturnTypesOf(call.f)[i], ReturnedValues[i])


-----------------------------------------------------------------------------
(* Keyword filtering. *)

\* C22: the function is called with the keyword of each of its ports and, of
\* the other keywords of the host, with exactly those its parameter list
\* names, each with the host's value; and after any call that supplies
\* unique_id, forwarded or not, _curr_unique_id is the value supplied.
C22_KeywordFiltering ==
    CallDone /\ call.f \in KeywordFuncs =>
        /\ Ran => /\ DOMAIN call.got.extra = (DOMAIN call.x.extra) \cap ParamNames(call.f)
                  /\ \A k \in DOMAIN call.got.extra : call.got.extra[k] = call.x.extra[k]
                  /\ call.got.args = call.x.args
        /\ "unique_id" \in DOMAIN call.x.extra => curr_unique_id = call.x.extra["unique_id"]

\* The host gave f10 all three keywords: f10 got unique_id only, and the id is
\* the one stashed.
C22_Witness ==
    /\ CallDone /\ Ran
    /\ call.f = "f10"
    /\ DOMAIN call.x.extra = ExtraNames
    /\ DOMAIN call.got.extra = {"unique_id"}
    /\ curr_unique_id = IntObj(2)

(***************************************************************************)
(* The three cases of a default                                            *)
(***************************************************************************)

\* The probe is a finished call of _infer_input_types_from_annotations.
InputsInferred ==
    /\ probe.op = "_infer_input_types_from_annotations"
    /\ probe.out.exc = ""

\* The parameters of the probe that are no hidden inputs of the host.
ProbePorts == {i \in 1..Len(probe.arg) : ~is_reserved(probe.arg[i].name)}

\* The parameter is in exactly this one of the maps required and optional,
\* and not among the hidden inputs.
InOnly(name, class) ==
    /\ name \in DOMAIN probe.out[class]
    /\ name \notin DOMAIN probe.out[IF class = "required" THEN "optional" ELSE "required"]
    /\ name \notin DOMAIN probe.out.hidden

\* C23: signature inference keeps the default cases apart: a parameter whose
\* default is None becomes an optional port with forceInput set, a parameter
\* without a default becomes a required port with forceInput set, and the two
\* are never put in the same class.
C23_DefaultCases ==
    InputsInferred =>
        \A i \in ProbePorts :
            LET p == probe.arg[i]
            IN  /\ p.default.kind = "None" =>
                     /\ InOnly(p.name, "optional")
                     /\ probe.out.optional[p.name].forceInput
                     /\ probe.out.optional[p.name].optional
                /\ p.default.kind = "empty" =>
                     /\ InOnly(p.name, "required")
                     /\ probe.out.required[p.name].forceInput
                     /\ ~probe.out.required[p.name].optional

\* One signature with a parameter without default and one with default None:
\* the first is required, the second optional, both with forceInput.
C23_Witness ==
    /\ InputsInferred
    /\ probe.arg = <<Param("x", "a.Img", NoDefault), Param("y", "", Default("None", 0))>>
    /\ DOMAIN probe.out.required = {"x"}
    /\ DOMAIN probe.out.optional = {"y"}
    /\ probe.out.required["x"].forceInput
    /\ probe.out.optional["y"].forceInput

(***************************************************************************)
(* A parameter with a concrete default                                     *)
(***************************************************************************)

\* The defaults that are concrete values and no widgets: a plain str, a
\* plain int or float, and any other object.
ConcreteKinds == {"str", "int", "obj"}

\* C24: a parameter other than the two reserved names that has a concrete
\* default which is not None, a plain string, int or float included, is
\* classified as an optional port that carries this default, and not as a
\* required port.
C24_ConcreteDefaultIsOptional ==
    InputsInferred =>
        \A i \in ProbePorts :
            LET p == probe.arg[i]
            IN  p.default.kind \in ConcreteKinds =>
                    /\ InOnly(p.name, "optional")
                    /\ probe.out.optional[p.name].default = <<PlainDefault(p.default)>>

(***************************************************************************)
(* End to end: the node add(a: int = 3, b: int = 4) -> int                 *)
(***************************************************************************)

\* The nodes created for add.
AddNodes == {n \in Nodes : n.func = "f9"}

\* The port a plain int default d gives on the port type "int".
IntPort(d) == Port("int", <<[kind |-> "int", val |-> d]>>, <<>>, <<>>, FALSE, FALSE)

\* The schema the example asks for: a and b required with their defaults,
\* nothing optional, the two reserved hidden inputs, one output "int".
AddSchema(class_dict) ==
    /\ class_dict.INPUT_TYPES.required = [n \in {"a", "b"} |-> IF n = "a" THEN IntPort(3) ELSE IntPort(4)]
    /\ class_dict.INPUT_TYPES.optional = EmptyDict
    /\ class_dict.INPUT_TYPES.hidden =
           [n \in ReservedNames |-> IF n = "unique_id" THEN BareType("UNIQUE_ID")
                                    ELSE BareType("EXTRA_PNGINFO")]
    /\ class_dict.RETURN_TYPES = <<"int">>
    /\ class_dict.OUTPUT_IS_LIST = <<FALSE>>

\* C25: the function add(a: int = 3, b: int = 4) -> int with the body a + b
\* registers with the required ports a and b carrying 3 and 4, no optional
\* port, exactly the two reserved hidden ports and one output of the port
\* type of int, and a finished call of its wrapper returns the one-element
\* tuple of the sum of what the host gave, (12,) for a = 5 and b = 7.
C25_AddEndToEnd ==
    /\ \A n \in AddNodes : AddSchema(n.class_dict)
    /\ CallDone /\ call.f = "f9" =>
           /\ call.ret.kind = "return"
           /\ ~call.ret.wrapped
           /\ call.ret.result = <<IntObj(call.x.args[1].v + call.x.args[2].v)>>

\* add is registered and its wrapper, called with 5 and 7, returned (12,).
C25_Witness ==
    /\ AddNodes # {}
    /\ CallDone /\ call.f = "f9"
    /\ call.x.args = <<IntObj(5), IntObj(7)>>
    /\ call.ret.kind = "return"
    /\ call.ret.result = <<IntObj(12)>>

(***************************************************************************)
(* The two reserved parameter names                                        *)
(***************************************************************************)

\* The hidden inputs every node has.
FixedHidden(hidden) ==
    /\ ReservedNames \subseteq DOMAIN hidden
    /\ hidden["unique_id"] = BareType("UNIQUE_ID")
    /\ hidden["extra_pnginfo"] = BareType("EXTRA_PNGINFO")

\* C26: for every signature the inferred hidden inputs hold unique_id as
\* UNIQUE_ID and extra_pnginfo as EXTRA_PNGINFO; a parameter with one of
\* these names is never a required or an optional port and never changes
\* the fixed hidden types, whatever its annotation (a type that is not
\* registered included) or its default, and the inference does not fail
\* because of that annotation.
C26_ReservedNames ==
    probe.op = "_infer_input_types_from_annotations" =>
        /\ probe.out.exc = "" =>
               /\ FixedHidden(probe.out.hidden)
               /\ ReservedNames \cap (DOMAIN probe.out.required \cup DOMAIN probe.out.optional) = {}
        /\ (\A i \in ProbePorts : try_get_type_str(Cur, probe.arg[i].annotation).exc = "")
               => probe.out.exc = ""

(***************************************************************************)
(* The outputs of a return annotation                                      *)
(***************************************************************************)

\* The probe is a finished call of _infer_return_types_from_annotations.
ReturnsInferred ==
    /\ probe.op = "_infer_return_types_from_annotations"
    /\ probe.out.exc = ""

\* C27: a tuple return annotation yields one output per element, the i-th
\* is-list flag being true exactly when the i-th element is list[...]; a
\* return annotation list[...] yields one output flagged true, a single plain
\* type one output flagged false; the port types and the flags always have
\* the same length.
C27_OutputFlags ==
    ReturnsInferred =>
        LET r == probe.arg
            out == probe.out
        IN  /\ Len(out.types) = Len(out.is_list)
            /\ r.origin = "tuple" =>
                   /\ Len(out.types) = Len(r.args)
                   /\ \A i \in 1..Len(r.args) :
                          /\ out.is_list[i] <=> r.args[i].origin = "list"
                          /\ out.types[i] = get_type_str(Cur, r.args[i].t)
            /\ r.origin = "list" =>
                   out.is_list = <<TRUE>> /\ out.types = <<get_type_str(Cur, r.t)>>
            /\ r.origin = "" =>
                   out.is_list = <<FALSE>> /\ out.types = <<get_type_str(Cur, r.t)>>

\* tuple[A, list[B]] with both types registered: two outputs, the flags
\* False and True.
C27_Witness ==
    /\ ReturnsInferred
    /\ probe.arg = TupleOf(<<Plain("a.Img"), ListOf("c.Txt")>>)
    /\ probe.out.types = <<"Img", "Txt">>
    /\ probe.out.is_list = <<FALSE, TRUE>>

(***************************************************************************)
(* Nodes without outputs are output nodes                                  *)
(***************************************************************************)

\* The nodes registered for the function f.
NodesOf(f) == {n \in Nodes : n.func = f}

\* The step registers a node for f.
Registers(f) == NodesOf(f) = {} /\ NodesOf(f)' # {}

\* C28: a node whose inferred output list is empty is registered as an output
\* node whether or not it was marked as one; a node with at least one output
\* is an output node exactly when it was marked as one; and running the
\* inference again on the same function gives the same outputs and the same
\* classification.
C28_ForcedOutputNode ==
    [][\A f \in OutputFuncs : \A kw \in OutputKws :
          Registers(f) /\ DecorateKw(f, kw) =>
              \A n \in NodesOf(f)' :
                  /\ Len(n.class_dict.RETURN_TYPES) = 0 => n.class_dict.OUTPUT_NODE
                  /\ Len(n.class_dict.RETURN_TYPES) > 0 =>
                         (n.class_dict.OUTPUT_NODE <=> kw.is_output_node)
                  /\ infer_types(Cur, f, kw)' = [exc |-> "", class_dict |-> n.class_dict]]_vars

\* Both kinds of node are registered: f3 without outputs, an output node, and
\* f8 with two outputs, not an output node.
C28_Witness ==
    /\ \E n \in NodesOf("f3") : /\ n.class_dict.RETURN_TYPES = <<>>
                                /\ n.class_dict.OUTPUT_NODE
    /\ \E n \in NodesOf("f8") : /\ Len(n.class_dict.RETURN_TYPES) = 2
                                /\ ~n.class_dict.OUTPUT_NODE

(***************************************************************************)
(* Explicit return types and output names                                  *)
(***************************************************************************)

\* The entries of the class maps and of the display-name maps, the host's
\* and every configuration's.
ClassEntries ==
    {<<k, host_class[k]>> : k \in DOMAIN host_class}
    \cup UNION {{<<k, configs[c].NODE_CLASS_MAPPINGS[k]>> :
                    k \in DOMAIN configs[c].NODE_CLASS_MAPPINGS} : c \in 1..Len(configs)}

DisplayEntries ==
    {<<k, host_display[k]>> : k \in DOMAIN host_display}
    \cup UNION {{<<k, configs[c].NODE_DISPLAY_NAME_MAPPINGS[k]>> :
                    k \in DOMAIN configs[c].NODE_DISPLAY_NAME_MAPPINGS} : c \in 1..Len(configs)}

\* What the outputs of f are inferred from under the keywords kw.
OutputSource(f, kw) ==
    IF kw.return_types # NotGiven THEN kw.return_types ELSE ReturnAnnotationOf(f)

\* Output names are given and their number is not the number of port types
\* of the outputs.
NamesMismatch(f, kw) ==
    LET ret == infer_return_types(Cur, OutputSource(f, kw))
    IN  /\ Len(kw.return_names) > 0
        /\ ret.exc = ""
        /\ Len(kw.return_names) # Len(ret.types)

\* C29: with an explicit list of return types the outputs of the node are
\* derived from that list alone, the return annotation of the function being
\* ignored; when output names are given and their number differs from the
\* number of output port types, the registration fails with an error and no
\* node is added to the class maps or to the display-name maps.
C29_ExplicitReturnTypes ==
    [][\A f \in OutputFuncs : \A kw \in OutputKws :
          ~RegistrationClosed(Cur) /\ DecorateKw(f, kw) =>
              /\ Registers(f) /\ kw.return_types # NotGiven =>
                     \A n \in NodesOf(f)' :
                         LET ret == infer_return_types(Cur, kw.return_types)
                         IN  /\ n.class_dict.RETURN_TYPES = ret.types
                             /\ n.class_dict.OUTPUT_IS_LIST = ret.is_list
              /\ NamesMismatch(f, kw) =>
                     /\ last'.exc # ""
                     /\ ClassEntries' = ClassEntries
                     /\ DisplayEntries' = DisplayEntries]_vars

\* f8, annotated to return two Txt, is registered with the one output Img of
\* its explicit list, and the registration of f3 with names that do not
\* match its outputs failed on the assertion and left no node.
C29_Witness ==
    /\ \E n \in NodesOf("f8") : n.class_dict.RETURN_TYPES = <<"Img">>
    /\ last = Last("ComfyNode", "f3", "AssertionError")
    /\ NodesOf("f3") = {}
    /\ RecordKey("f3") \in DOMAIN function_dict

(***************************************************************************)
(* The range of a numeric widget                                           *)
(***************************************************************************)

\* C30: constructing a numeric widget raises ValueError exactly when a min is
\* given and default < min, or a max is given and default > max; a default
\* equal to a bound, or any default when the bound is absent, is accepted and
\* kept.  The failure happens at construction: a function whose default is a
\* widget out of its range never gets a record or a node.
C30_NumberInputRange ==
    /\ probe.op = "NumberInput" =>
           LET a == probe.arg
               below == a.min # <<>> /\ a.default < a.min[1]
               above == a.max # <<>> /\ a.default > a.max[1]
           IN  /\ probe.out.exc = "ValueError" <=> below \/ above
               /\ probe.out.exc \in {"", "ValueError"}
               /\ probe.out.exc = "" =>
                      /\ probe.out.val.val = a.default
                      /\ probe.out.val.min = a.min
                      /\ probe.out.val.max = a.max
    /\ \A f \in WidgetFuncs :
           DefaultsRaise(f) =>
               /\ RecordKey(f) \notin DOMAIN function_dict
               /\ NodesOf(f) = {}
               /\ last.op = "ComfyNode" /\ last.a = f => last.exc # ""

\* A default below the min was refused, f12, whose default is its min, is
\* registered, and f11, whose default is above its max, is not.
C30_Witness ==
    /\ probe.op = "NumberInput"
    /\ probe.arg = [default |-> 1, min |-> <<2>>, max |-> <<>>]
    /\ probe.out.exc = "ValueError"
    /\ NodesOf("f12") # {}
    /\ NodesOf("f11") = {}
    /\ DefaultsRaise("f11") /\ ~DefaultsRaise("f12")

(***************************************************************************)
(* Registering a type twice                                                *)
(***************************************************************************)

\* What is stored for the registered type cls: its port-type name, its two
\* flags and the validator of its port type.
StoredFor(cls) ==
    [name |-> ANNOTATION_TO_COMFYUI_TYPE[cls],
     should_autoconvert |-> SHOULD_AUTOCONVERT[cls],
     force_input |-> DEFAULT_FORCE_INPUT[cls],
     verifier |-> custom_verifiers[ANNOTATION_TO_COMFYUI_TYPE[cls]]]

\* C31: while the latch is open, registering a native type that is already
\* registered raises the uniqueness assertion when is_auto_register is not
\* set and is a silent no-op when it is set; either way the port-type name,
\* the auto-convert flag, the force-input flag and the validator stored for
\* the type stay as they were.
C31_RegisteredTwice ==
    [][\A cls \in RepeatedTypes : \A name \in TypeNames :
         \A should_autoconvert \in BOOLEAN : \A is_auto_register \in BOOLEAN :
           \A force_input \in BOOLEAN : \A verifier \in {"", "V1"} :
             /\ ~after_first_prompt
             /\ cls \in DOMAIN ANNOTATION_TO_COMFYUI_TYPE
             /\ RegisterTypeCall(cls, name, should_autoconvert, is_auto_register,
                                 force_input, verifier)
             => /\ last'.exc = IF is_auto_register THEN "" ELSE "AssertionError"
                /\ cls \in DOMAIN ANNOTATION_TO_COMFYUI_TYPE'
                /\ StoredFor(cls)' = StoredFor(cls)
                /\ DOMAIN ANNOTATION_TO_COMFYUI_TYPE' = DOMAIN ANNOTATION_TO_COMFYUI_TYPE]_vars

\* a.Img, registered with both flags set and the validator V1, was registered
\* again and the assertion refused it.
C31_Witness ==
    /\ last = Last("register_type", "a.Img", "AssertionError")
    /\ "a.Img" \in DOMAIN ANNOTATION_TO_COMFYUI_TYPE
    /\ SHOULD_AUTOCONVERT["a.Img"] /\ DEFAULT_FORCE_INPUT["a.Img"]
    /\ custom_verifiers[ANNOTATION_TO_COMFYUI_TYPE["a.Img"]] = CustomVerifier("V1")

(***************************************************************************)
(* Resolving a native type to a port-type name                             *)
(***************************************************************************)

\* The port-type name the type t is registered under, as a result of
\* _get_type_str, and the lookup error for a type that is not registered.
RegisteredName(t) ==
    IF t \in DOMAIN ANNOTATION_TO_COMFYUI_TYPE
    THEN [exc |-> "", name |-> ANNOTATION_TO_COMFYUI_TYPE[t]]
    ELSE [exc |-> "ValueError", name |-> ""]

\* C32: resolving a native type returns the registered name on an exact
\* match, resolves list[T] to the port-type name of T, returns the wildcard
\* only for a missing annotation, and raises the lookup error for any other
\* type that is not registered; it never falls back to the wildcard for an
\* annotated type that is not registered.  (last.op is "" in the state the
\* resolution leaves, before any later registration.)
C32_TypeResolution ==
    probe.op = "_get_type_str" /\ last.op = "" =>
        LET a == probe.arg
        IN  /\ a.origin = "" => probe.out = RegisteredName(a.t)
            /\ a.origin = "list" => probe.out = RegisteredName(a.t)
            /\ a.origin = "empty" => probe.out = [exc |-> "", name |-> any_type]
            /\ probe.out.name = any_type => a.origin = "empty"

(***************************************************************************)
(* Exporting the node maps                                                 *)
(***************************************************************************)

\* The nodes registered under the configuration c.
NodesUnder(c) == {n \in Nodes : n.cfg = c}

\* C33: get_node_mappings succeeds at most once per configuration and only
\* after initialization, with at least one node registered under the current
\* configuration and auto_register not True; any other call raises and leaves
\* the configuration as it was.  A successful call returns the class map and
\* the display-name map that hold exactly the nodes registered under that
\* configuration.
C33_GetNodeMappings ==
    [][GetNodeMappingsCall =>
         LET c == current_config
             allowed == /\ c # 0
                        /\ configs[c].num_registered > 0
                        /\ configs[c].auto_register # "True"
                        /\ ~configs[c].get_node_mappings_called
         IN  /\ last'.exc = "" <=> allowed
             /\ last'.exc \in {"", "AssertionError"}
             /\ allowed =>
                    /\ configs'[c].get_node_mappings_called
                    /\ Len(probe'.out) = 2
                    /\ Values(probe'.out[1]) = NodesUnder(c)
                    /\ Cardinality(DOMAIN probe'.out[1]) = configs[c].num_registered
                    /\ DOMAIN probe'.out[2] = DOMAIN probe'.out[1]
                    /\ NodesUnder(c)' = NodesUnder(c)
             /\ ~allowed => configs' = configs /\ probe'.out = <<>>
             /\ current_config' = current_config
             /\ host_class' = host_class /\ host_display' = host_display]_vars

\* The second configuration exported its one node, after the first one had
\* exported its own.
C33_Witness ==
    /\ last = Last("get_node_mappings", "", "")
    /\ current_config = 2
    /\ configs[1].get_node_mappings_called
    /\ configs[2].get_node_mappings_called
    /\ probe.op = "get_node_mappings"
    /\ Cardinality(DOMAIN probe.out[1]) = 1
    /\ Values(probe.out[1]) = NodesUnder(2)

(***************************************************************************)
(* Initializing again                                                      *)
(***************************************************************************)

\* The nodes of the configuration c were picked up: registered with the host
\* as they were created (auto_register True, or the mixed mode DEFAULT), or
\* exported through get_node_mappings.
PickedUp(c) ==
    configs[c].auto_register # "False" \/ configs[c].get_node_mappings_called

\* C34: while the latch is open, a repeated initialize_easy_nodes is accepted
\* when at least one node was registered under the previous configuration and
\* the nodes of that configuration were picked up; it is rejected only when
\* no node was registered since the last initialization, or when
\* auto-registration was off and the registered nodes were not picked up.
C34_Reinitialize ==
    [][\A auto_register \in AutoRegisterModes :
          /\ ~after_first_prompt
          /\ current_config # 0
          /\ InitializeCall(auto_register, "warn")
          => (last'.exc = "" <=> /\ configs[current_config].num_registered > 0
                                 /\ PickedUp(current_config))]_vars

(***************************************************************************)
(* The configuration a node runs under                                     *)
(***************************************************************************)

\* The last call ran under the configuration of the node called, and a value
\* that fails its validator was treated by that configuration's policy.
CallUsesNodeConfig ==
    CallDone /\ call.f \in ConfigFuncs =>
        \A n \in NodesOf(call.f) :
            LET level == configs[n.cfg].verify_level
            IN  /\ call.c = n.cfg
                /\ InputFails \/ OutputFails =>
                       /\ call.ret.kind = "raise" <=> level = "fatal"
                       /\ level = "warn" => InTrace("warn")
                       /\ level = "off" => ~InTrace("warn")
                       /\ InputFails => (Ran <=> level # "fatal")

\* C35: every node uses, at each invocation, the configuration that was
\* current when its decorator was created: the node is made under the
\* configuration current at that moment, a later initialize_easy_nodes with
\* other options leaves the nodes made before it and their configurations as
\* they were, and every call is verified with the severity of the called
\* node's configuration.
C35_NodeKeepsItsConfig ==
    [][/\ \A f \in ConfigFuncs :
            /\ Registers(f) => \A n \in NodesOf(f)' : n.cfg = current_config'
            /\ NodesOf(f) # {} =>
                   /\ NodesOf(f)' = NodesOf(f)
                   /\ \A n \in NodesOf(f) :
                          configs'[n.cfg].verify_level = configs[n.cfg].verify_level
       /\ CallUsesNodeConfig']_vars

\* f7 was made under the policy warn, the current configuration is a later
\* one with the policy fatal, and a call of f7 with a failing argument has
\* run the function and returned.
C35_Witness ==
    /\ CallDone /\ call.f = "f7"
    /\ call.c = 1 /\ current_config = 2
    /\ configs[1].verify_level = "warn" /\ configs[2].verify_level = "fatal"
    /\ NodesOf("f8") # {} /\ (\A n \in NodesOf("f8") : n.cfg = 2)
    /\ InputFails /\ Ran /\ call.ret.kind = "return"

(***************************************************************************)
(* The live update and the assertions of _register_function                *)
(***************************************************************************)

\* The step is one of the live-update path: an invocation of a wrapper or a
\* change-signal query, or the end of the reload one of them started.
LiveUpdateStep ==
    \/ \E f \in ShadowFuncs : InvokeWrapper(f) \/ InvokeIsChanged(f, 0)
    \/ FinishReload(0)

\* C36: for any sequence of registrations, edits and invocations or
\* change-signal queries, the live-update path never trips the assertions of
\* _register_function: every update it submits has a strictly newer timestamp
\* and another fingerprint than the stored record, so that the timestamp
\* recorded for a function strictly increases with every accepted update.
C36_UpdateNeverTripsAssertion ==
    [][LiveUpdateStep =>
         /\ last'.exc # "AssertionError"
         /\ \A q \in DOMAIN function_dict :
                function_dict'[q] # function_dict[q] =>
                    /\ function_update_times'[q] > function_update_times[q]
                    /\ function_checksums'[q] # function_checksums[q]]_vars

(***************************************************************************)
(* Several functions changed by one edit                                   *)
(***************************************************************************)

\* The implementation of f that its module holds once it is reloaded from
\* the file as it is now.
Current(f) == FuncObj(f, disk_src[f])

\* The module of f was reloaded since its file was edited last and holds the
\* current implementation of f, while the record of f is older than the
\* file and was taken from another source text.
ReloadedByAnother(f) ==
    /\ module_reload_times[ModuleOf(f)] = disk_mtime[ModuleOf(f)]
    /\ NameOf(f) \in DOMAIN module_attrs[ModuleOf(f)]
    /\ module_attrs[ModuleOf(f)][NameOf(f)] = Current(f)
    /\ function_checksums[RecordKey(f)] # Checksum(disk_src[f])
    /\ function_update_times[RecordKey(f)] < disk_mtime[ModuleOf(f)]

\* C37: when one edit of a module changes the source of several registered
\* functions, each of them resolves to its new implementation at its own
\* next invocation, although the module is reloaded only once, by the one
\* invoked first: the invocation of another one finds the module reloaded,
\* does not reload it again, and replaces the record of its own function.
C37_EachChangedFunctionUpdates ==
    [][\A f \in EditedFuncs :
          /\ Idle
          /\ ReloadOnEdit
          /\ f \in NodeFuncs
          /\ ReloadedByAnother(f)
          /\ InvokeWrapper(f)
          => /\ pc' = pc
             /\ module_reload_times' = module_reload_times
             /\ function_dict'[RecordKey(f)] = Current(f)
             /\ function_checksums'[RecordKey(f)] = Checksum(disk_src[f])
             /\ function_update_times'[RecordKey(f)] = disk_mtime[ModuleOf(f)]
             /\ \A q \in DOMAIN function_dict \ {RecordKey(f)} :
                    function_dict'[q] = function_dict[q]]_vars

\* One edit at time 1 changed foo and bar; the module was reloaded once, and
\* both records hold the new implementations, taken at time 1.
C37_Witness ==
    /\ Idle
    /\ disk_mtime["A"] = 1
    /\ module_reload_times["A"] = 1
    /\ {"foo", "bar"} \subseteq DOMAIN function_dict
    /\ function_dict["foo"] = FuncObj("f1", 2)
    /\ function_dict["bar"] = FuncObj("f2", 2)
    /\ function_update_times["foo"] = 1
    /\ function_update_times["bar"] = 1

(***************************************************************************)
(* A registration that fails                                               *)
(***************************************************************************)

\* The class and display-name maps of every configuration.
NodeMaps(cs) ==
    [c \in DOMAIN cs |->
        <<cs[c].NODE_CLASS_MAPPINGS, cs[c].NODE_DISPLAY_NAME_MAPPINGS>>]

\* C38: a ComfyNode registration that fails with a registration-time contract
\* error is atomic: it leaves the function record maps, the module reload
\* times and the node class and display-name maps as they were before the
\* attempt.
C38_FailedRegistrationIsAtomic ==
    [][\A f \in OutputFuncs : \A kw \in OutputKws :
          /\ DecorateKw(f, kw)
          /\ last'.exc # ""
          => /\ function_dict' = function_dict
             /\ function_checksums' = function_checksums
             /\ function_update_times' = function_update_times
             /\ module_reload_times' = module_reload_times
             /\ NodeMaps(configs') = NodeMaps(configs)]_vars

(***************************************************************************)
(* The latch that closes registration                                      *)
(***************************************************************************)

\* The step is the live-update tracker starting the reload of a module whose
\* file is newer than its last reload.
TrackerStartsReload ==
    /\ ReloadOnEdit
    /\ pc.mode = "idle"
    /\ pc'.mode = "reload"
    /\ disk_mtime[pc'.m] > Get(module_reload_times, pc'.m, 0)

\* C39: the latch starts open, is set only by the live-update tracker when it
\* reloads a module, and once set it is never cleared, whatever the process
\* does afterwards.
C39_LatchIsMonotonic ==
    /\ ~after_first_prompt
    /\ [][/\ after_first_prompt => after_first_prompt'
          /\ (~after_first_prompt /\ after_first_prompt') => TrackerStartsReload]_vars

\* The latch was set by a reload that is over, and the host has invoked a
\* wrapper again since without a reload.
C39_Witness ==
    /\ after_first_prompt
    /\ Idle
    /\ module_reload_times["A"] = disk_mtime["A"]
    /\ disk_mtime["A"] > 0
    /\ call.f = "f2"
    /\ function_dict["foo"] = FuncObj("f1", 2)

(***************************************************************************)
(* Preview entries of earlier invocations                                  *)
(***************************************************************************)

\* The entries the function of the last wrapper call produced when it ran.
OwnEntries == [i \in 1..call.x.texts |-> "text"]

\* The function of the last wrapper call was run.
FunctionRan == \E i \in 1..Len(call.trace) : call.trace[i] = "func"

\* C40: preview entries never leak between invocations: the buffer is emptied
\* before the function runs, so after an invocation that ran its function the
\* buffer holds the entries of that run only, and the ui payload the
\* invocation returns is made of them, whatever the buffer held when the
\* invocation started.
C40_NoPreviewLeak ==
    FunctionRan
    => /\ curr_preview = OwnEntries
       /\ (call.ret.kind = "return" /\ call.ret.wrapped) => call.ret.ui = OwnEntries

\* An invocation that found the entries of an earlier one in the buffer
\* returned a ui payload with its own entry alone.
C40_Witness ==
    /\ probe.op = "wrapper"
    /\ probe.out # <<>>
    /\ FunctionRan
    /\ call.x.texts = 1
    /\ call.ret.kind = "return"
    /\ call.ret.wrapped
    /\ Len(call.ret.ui) = 1

====
